---- MODULE Spec2Model ----
(***************************************************************************)
(* A model of the knowledge, tree, grove and checkpoint layers of          *)
(* python-sag (src/python-sag/src/sag).                                    *)
(*                                                                         *)
(* Python strings that the code takes apart (topics, patterns) are         *)
(* sequences of one-character strings; agent ids, values and tags are      *)
(* plain strings.  A Python dict is a sequence of entries in insertion     *)
(* order, because the code's results depend on that order (the stable      *)
(* sort of compute_delta, the overwrite order of child_facts).             *)
(***************************************************************************)
EXTENDS Integers, Sequences, FiniteSets, TLC

VARIABLES
    nodes,        \* TreeEngine._nodes: agent id -> [parent, children]
    root,         \* TreeEngine._root: an agent id, or NoNode
    knowledge,    \* agent id -> the node's KnowledgeEngine fields
    correlation,  \* agent id -> the node's CorrelationEngine._correlation_map
    counter,      \* correlation._message_id_counter: the next value of itertools.count(1)
    files,        \* CheckpointManager._directory: the checkpoint files, in order of creation
    grove,        \* the fields of the InteractiveGrove instance
    frame,        \* the local variables of a running Grove.execute / InteractiveGrove.step
    trace,        \* the callbacks fired since the last setup, execute or rollback
    asserted,     \* history: agent id -> the topics whose entry its own assert_fact wrote
    saved,        \* history: checkpoint id -> the tree and grove as they were at save
    minted,       \* history: the message ids generated so far
    folds,        \* FoldEngine._store: fold id -> the list object the engine keeps
    heap,         \* the list objects that the fold engine and its callers hold
    last          \* the last call: its name, arguments and returned value

vars ==
    <<nodes, root, knowledge, correlation, counter, files, grove, frame, trace,
      asserted, saved, minted, folds, heap, last>>

\* what the calls on the knowledge engines leave alone
others == <<nodes, root, correlation, counter, files, grove, frame, trace, saved>>

----------------------------------------------------------------------------
(* Bounds of the model *)

MaxSegs == 3          \* segments in a generated topic or pattern
MaxVersion == 2       \* cap on an engine's local_version and on incoming versions
MaxStmts == 2         \* statements in one apply_incoming call
MaxAsserts == 1       \* facts one runner call asserts
MaxCheckpoints == 1   \* checkpoint files written in one behaviour
MaxMessages == 3      \* message ids generated in one behaviour
MaxCalls == 3         \* assert_fact calls on an engine that is only asserted into

NoNode == "<none>"
None == "<None>"

----------------------------------------------------------------------------
(* Python str and list helpers *)

Dot == "."
Star == "*"

\* a Python value: its type and its text
PyStr(text) == [type |-> "str", text |-> text]

PyInt(text) == [type |-> "int", text |-> text]

\* str(value)
str(value) == PyStr(value.text)

endswith(s, suffix) ==
    /\ Len(s) >= Len(suffix)
    /\ SubSeq(s, Len(s) - Len(suffix) + 1, Len(s)) = suffix

startswith(s, prefix) ==
    /\ Len(s) >= Len(prefix)
    /\ SubSeq(s, 1, Len(prefix)) = prefix

\* s[:-n]
DropLast(s, n) == SubSeq(s, 1, Len(s) - n)

\* s[n:] with a 0-based n
DropFirst(s, n) == SubSeq(s, n + 1, Len(s))

\* c in s
Contains(s, c) == \E i \in 1..Len(s) : s[i] = c

Range(s) == { s[i] : i \in 1..Len(s) }

MaxOf(S) == CHOOSE x \in S : \A y \in S : y <= x

MinOf(S) == CHOOSE x \in S : \A y \in S : x <= y

----------------------------------------------------------------------------
(* knowledge.py: topic_matches *)

\* A slip of topic_matches: the prefix is compared without the separating dot.
topic_matches_noDot(pattern, topic) ==
    IF pattern = topic THEN TRUE
    ELSE IF pattern = <<Star, Star>> THEN TRUE
    ELSE IF endswith(pattern, <<Dot, Star, Star>>)
         THEN LET prefix == DropLast(pattern, 3)
              IN  topic = prefix \/ startswith(topic, prefix)
    ELSE IF endswith(pattern, <<Dot, Star>>)
         THEN LET prefix == DropLast(pattern, 2)
              IN  IF ~startswith(topic, prefix)
                  THEN FALSE
                  ELSE ~Contains(DropFirst(topic, Len(prefix) + 1), Dot)
    ELSE FALSE

topic_matches(pattern, topic) ==
    IF pattern = topic THEN TRUE
    ELSE IF pattern = <<Star, Star>> THEN TRUE
    ELSE IF endswith(pattern, <<Dot, Star, Star>>)
         THEN LET prefix == DropLast(pattern, 3)
              IN  topic = prefix \/ startswith(topic, prefix \o <<Dot>>)
    ELSE IF endswith(pattern, <<Dot, Star>>)
         THEN LET prefix == DropLast(pattern, 2)
              IN  IF ~startswith(topic, prefix \o <<Dot>>)
                  THEN FALSE
                  ELSE ~Contains(DropFirst(topic, Len(prefix) + 1), Dot)
    ELSE FALSE

----------------------------------------------------------------------------
(* Topics and patterns as dotted strings *)

\* the segment names topics are built from: one is a proper prefix of another
SegNames == { <<"a">>, <<"b">>, <<"a", "b">> }

WildSegs == { <<Star>>, <<Star, Star>> }

RECURSIVE Join(_)
\* ".".join(segs)
Join(segs) ==
    IF Len(segs) = 0 THEN <<>>
    ELSE IF Len(segs) = 1 THEN segs[1]
    ELSE segs[1] \o <<Dot>> \o Join(Tail(segs))

RECURSIVE Split(_)
\* s.split(".")
Split(s) ==
    IF ~Contains(s, Dot) THEN <<s>>
    ELSE LET i == MinOf({ j \in 1..Len(s) : s[j] = Dot })
         IN  <<SubSeq(s, 1, i - 1)>> \o Split(SubSeq(s, i + 1, Len(s)))

SeqsUpTo(S, n) == UNION { [1..k -> S] : k \in 1..n }

\* every topic of at most MaxSegs segments (a dotted identifier: no wildcard)
GenTopics == { Join(segs) : segs \in SeqsUpTo(SegNames, MaxSegs) }

\* every pattern of at most MaxSegs segments in which ** is only the last segment
GenPatterns ==
    { Join(segs) : segs \in
        { p \in SeqsUpTo(SegNames \cup WildSegs, MaxSegs) :
            \A i \in 1..(Len(p) - 1) : p[i] # <<Star, Star>> } }

----------------------------------------------------------------------------
(* Python dict as a sequence of entries in insertion order *)

EmptyMap == [x \in {} |-> 0]

\* d.get(key, default) for a dict modelled as a function
GetOr(f, key, default) == IF key \in DOMAIN f THEN f[key] ELSE default

\* d[key] = val for a dict modelled as a function
Put(f, key, val) == [x \in DOMAIN f \cup {key} |-> IF x = key THEN val ELSE f[x]]

\* the keys of a fact dict
Topics(facts) == { facts[i].topic : i \in 1..Len(facts) }

HasTopic(facts, topic) == \E i \in 1..Len(facts) : facts[i].topic = topic

\* self._facts.get(topic): the entry, or None
dict_get(facts, topic) ==
    IF HasTopic(facts, topic)
    THEN facts[CHOOSE i \in 1..Len(facts) : facts[i].topic = topic]
    ELSE None

\* self._facts[topic] = (value, version): an existing key keeps its place
dict_set(facts, topic, value, version) ==
    LET e == [topic |-> topic, value |-> value, version |-> version]
    IN  IF HasTopic(facts, topic)
        THEN [i \in 1..Len(facts) |-> IF facts[i].topic = topic THEN e ELSE facts[i]]
        ELSE Append(facts, e)

----------------------------------------------------------------------------
(* knowledge.py: KnowledgeEngine *)

KnowledgeStatement(topic, value, version) ==
    [topic |-> topic, value |-> value, version |-> version]

\* KnowledgeEngine.__init__
KnowledgeEngine ==
    [facts |-> <<>>, subscriptions |-> {}, subscribers |-> EmptyMap,
     version_vectors |-> EmptyMap, local_version |-> 0,
     fold_engine |-> FALSE, knowledge_budget |-> 1000]

\* A slip of assert_fact: the fact is stamped past the bumped local version.
assert_fact_skip(k, topic, value) ==
    [k EXCEPT !.local_version = k.local_version + 1,
              !.facts = dict_set(k.facts, topic, value, k.local_version + 2)]

assert_fact(k, topic, value) ==
    [k EXCEPT !.local_version = k.local_version + 1,
              !.facts = dict_set(k.facts, topic, value, k.local_version + 1)]

\* the statement assert_fact returns, read from the engine it leaves
assert_fact_ret(k2, topic, value) ==
    KnowledgeStatement(topic, value, k2.local_version)

add_subscriber(k, agent_id, topic_pattern) ==
    [k EXCEPT !.subscribers =
                  Put(@, agent_id, GetOr(@, agent_id, {}) \cup {topic_pattern}),
              !.version_vectors =
                  IF agent_id \in DOMAIN @ THEN @ ELSE Put(@, agent_id, 0)]

remove_subscriber(k, agent_id, topic_pattern) ==
    IF agent_id \notin DOMAIN k.subscribers THEN k
    ELSE LET left == k.subscribers[agent_id] \ {topic_pattern}
         IN  [k EXCEPT !.subscribers =
                  IF left = {}
                  THEN [x \in DOMAIN @ \ {agent_id} |-> @[x]]
                  ELSE Put(@, agent_id, left)]

RECURSIVE sort_by_version(_)
\* list.sort(key=version): stable, so entries of equal version keep their order
sort_by_version(s) ==
    IF Len(s) <= 1 THEN s
    ELSE LET rest == sort_by_version(SubSeq(s, 1, Len(s) - 1))
             x == s[Len(s)]
             n == Cardinality({ i \in 1..Len(rest) : rest[i].version <= x.version })
         IN  SubSeq(rest, 1, n) \o <<x>> \o SubSeq(rest, n + 1, Len(rest))

\* A slip of compute_delta: the version test is not strict.
compute_delta_stale(k, peer_id) ==
    LET last_seen == GetOr(k.version_vectors, peer_id, 0)
        patterns == GetOr(k.subscribers, peer_id, {})
        Wanted(f) == /\ ~(f.version < last_seen)
                     /\ \E p \in patterns : topic_matches(p, f.topic)
    IN  IF patterns = {} THEN <<>>
        ELSE sort_by_version(SelectSeq(k.facts, Wanted))

compute_delta(k, peer_id) ==
    LET last_seen == GetOr(k.version_vectors, peer_id, 0)
        patterns == GetOr(k.subscribers, peer_id, {})
        Wanted(f) == /\ ~(f.version <= last_seen)
                     /\ \E p \in patterns : topic_matches(p, f.topic)
    IN  IF patterns = {} THEN <<>>
        ELSE sort_by_version(SelectSeq(k.facts, Wanted))

RECURSIVE apply_incoming_stale(_, _, _)
\* A slip of apply_incoming: a statement of equal version is accepted too.
apply_incoming_stale(k, statements, source_id) ==
    IF statements = <<>> THEN [engine |-> k, applied |-> <<>>]
    ELSE LET stmt == Head(statements)
             existing == dict_get(k.facts, stmt.topic)
             accept == ~HasTopic(k.facts, stmt.topic) \/ stmt.version >= existing.version
             k2 == IF accept
                   THEN [k EXCEPT !.facts =
                            dict_set(@, stmt.topic, stmt.value, stmt.version)]
                   ELSE k
             rest == apply_incoming_stale(k2, Tail(statements), source_id)
         IN  [engine |-> rest.engine,
              applied |-> IF accept THEN <<stmt>> \o rest.applied ELSE rest.applied]

RECURSIVE apply_incoming(_, _, _)
\* the engine after the call, and the list the call returns
apply_incoming(k, statements, source_id) ==
    IF statements = <<>> THEN [engine |-> k, applied |-> <<>>]
    ELSE LET stmt == Head(statements)
             existing == dict_get(k.facts, stmt.topic)
             accept == ~HasTopic(k.facts, stmt.topic) \/ stmt.version > existing.version
             k2 == IF accept
                   THEN [k EXCEPT !.facts =
                            dict_set(@, stmt.topic, stmt.value, stmt.version)]
                   ELSE k
             rest == apply_incoming(k2, Tail(statements), source_id)
         IN  [engine |-> rest.engine,
              applied |-> IF accept THEN <<stmt>> \o rest.applied ELSE rest.applied]

\* A slip of acknowledge_sync: the version is stored without the max.
acknowledge_sync_set(k, peer_id, up_to_version) ==
    [k EXCEPT !.version_vectors = Put(@, peer_id, up_to_version)]

acknowledge_sync(k, peer_id, up_to_version) ==
    [k EXCEPT !.version_vectors =
        Put(@, peer_id,
            IF GetOr(@, peer_id, 0) >= up_to_version
            THEN GetOr(@, peer_id, 0) ELSE up_to_version)]

\* A slip of load_state: the local version is not loaded.
knowledge_load_state_facts(k, facts, local_version) ==
    [k EXCEPT !.facts = facts]

\* KnowledgeEngine.load_state
knowledge_load_state(k, facts, local_version) ==
    [k EXCEPT !.facts = facts, !.local_version = local_version]

----------------------------------------------------------------------------
(* tree.py: AgentNode and TreeEngine.  A tree value is the record           *)
(* [nodes, root, knowledge, correlation]: the node map, the root id and      *)
(* the two engines every AgentNode owns.                                     *)

AgentNode(parent) == [parent |-> parent, children |-> <<>>]

\* TreeEngine.__init__
TreeEngine ==
    [nodes |-> EmptyMap, root |-> NoNode, knowledge |-> EmptyMap,
     correlation |-> EmptyMap]

\* add_root: the tree after the call (unchanged when the call raises)
add_root(t, agent_id) ==
    IF t.root # NoNode THEN t
    ELSE [nodes |-> Put(t.nodes, agent_id, AgentNode(NoNode)),
          root |-> agent_id,
          knowledge |-> Put(t.knowledge, agent_id, KnowledgeEngine),
          correlation |-> Put(t.correlation, agent_id, EmptyMap)]

\* the exception add_root raises ("" for none)
add_root_raises(t, agent_id) ==
    IF t.root # NoNode THEN "ValueError" ELSE ""

\* the exception add_child raises ("" for none)
add_child_raises(t, parent_id, agent_id) ==
    IF parent_id \notin DOMAIN t.nodes THEN "KeyError"
    ELSE IF agent_id \in DOMAIN t.nodes THEN "ValueError"
    ELSE ""

\* A slip of add_child: an id that is taken is not refused.
add_child_retake(t, parent_id, agent_id) ==
    IF parent_id \notin DOMAIN t.nodes THEN t
    ELSE [nodes |-> Put(Put(t.nodes, agent_id, AgentNode(parent_id)), parent_id,
                        [t.nodes[parent_id] EXCEPT !.children = Append(@, agent_id)]),
          root |-> t.root,
          knowledge |-> Put(t.knowledge, agent_id, KnowledgeEngine),
          correlation |-> Put(t.correlation, agent_id, EmptyMap)]

\* add_child: the tree after the call (unchanged when the call raises)
add_child(t, parent_id, agent_id) ==
    IF parent_id \notin DOMAIN t.nodes THEN t
    ELSE IF agent_id \in DOMAIN t.nodes THEN t
    ELSE [nodes |-> Put(Put(t.nodes, agent_id, AgentNode(parent_id)), parent_id,
                        [t.nodes[parent_id] EXCEPT !.children = Append(@, agent_id)]),
          root |-> t.root,
          knowledge |-> Put(t.knowledge, agent_id, KnowledgeEngine),
          correlation |-> Put(t.correlation, agent_id, EmptyMap)]

\* setup_subscriptions: every child gets its parent as a subscriber
setup_subscriptions(ns, kn, pattern) ==
    [c \in DOMAIN kn |->
        IF \E p \in DOMAIN ns : c \in Range(ns[p].children)
        THEN add_subscriber(kn[c],
                 CHOOSE p \in DOMAIN ns : c \in Range(ns[p].children), pattern)
        ELSE kn[c]]

RECURSIVE bfs(_, _)
\* the breadth-first loop of get_levels_bottom_up: depth_map in insertion order
bfs(ns, queue) ==
    IF queue = <<>> THEN <<>>
    ELSE LET node == Head(queue)[1]
             depth == Head(queue)[2]
             kids == ns[node].children
         IN  <<Head(queue)>> \o
             bfs(ns, Tail(queue) \o [i \in 1..Len(kids) |-> <<kids[i], depth + 1>>])

\* A slip of get_levels_bottom_up: the levels are not reversed.
get_levels_top_down(ns, rt) ==
    IF rt = NoNode THEN <<>>
    ELSE LET depth_map == bfs(ns, << <<rt, 0>> >>)
             max_depth == MaxOf({ depth_map[i][2] : i \in 1..Len(depth_map) })
             AtDepth(d) ==
                 LET Here(e) == e[2] = d
                     sel == SelectSeq(depth_map, Here)
                 IN  [i \in 1..Len(sel) |-> sel[i][1]]
         IN  [i \in 1..(max_depth + 1) |-> AtDepth(i - 1)]

get_levels_bottom_up(ns, rt) ==
    IF rt = NoNode THEN <<>>
    ELSE LET depth_map == bfs(ns, << <<rt, 0>> >>)
             max_depth == MaxOf({ depth_map[i][2] : i \in 1..Len(depth_map) })
             AtDepth(d) ==
                 LET Here(e) == e[2] = d
                     sel == SelectSeq(depth_map, Here)
                 IN  [i \in 1..Len(sel) |-> sel[i][1]]
         IN  [i \in 1..(max_depth + 1) |-> AtDepth(max_depth + 1 - i)]

\* A slip of propagate_up: the child does not acknowledge what it sent.
propagate_up_noAck(ns, kn, child_id) ==
    IF child_id \notin DOMAIN ns
    THEN [knowledge |-> kn, raised |-> "KeyError", ret |-> <<>>]
    ELSE IF ns[child_id].parent = NoNode
    THEN [knowledge |-> kn, raised |-> "", ret |-> <<>>]
    ELSE LET parent_id == ns[child_id].parent
             delta == compute_delta(kn[child_id], parent_id)
             res == apply_incoming(kn[parent_id], delta, child_id)
         IN  IF delta = <<>> THEN [knowledge |-> kn, raised |-> "", ret |-> <<>>]
             ELSE [knowledge |-> [kn EXCEPT ![parent_id] = res.engine],
                   raised |-> "", ret |-> res.applied]

\* propagate_up: every engine after the call, the exception it raises ("" for
\* none) and what it returns
propagate_up(ns, kn, child_id) ==
    IF child_id \notin DOMAIN ns
    THEN [knowledge |-> kn, raised |-> "KeyError", ret |-> <<>>]
    ELSE IF ns[child_id].parent = NoNode
    THEN [knowledge |-> kn, raised |-> "", ret |-> <<>>]
    ELSE LET parent_id == ns[child_id].parent
             delta == compute_delta(kn[child_id], parent_id)
             res == apply_incoming(kn[parent_id], delta, child_id)
             max_version == MaxOf({ delta[i].version : i \in 1..Len(delta) })
         IN  IF delta = <<>> THEN [knowledge |-> kn, raised |-> "", ret |-> <<>>]
             ELSE [knowledge |->
                       [kn EXCEPT ![parent_id] = res.engine,
                                  ![child_id] = acknowledge_sync(kn[child_id],
                                                    parent_id, max_version)],
                   raised |-> "", ret |-> res.applied]

----------------------------------------------------------------------------
(* correlation.py: a CorrelationEngine is its _correlation_map.  A message   *)
(* id f"{agent_id}-{counter}" is the pair <<agent_id, counter>>, and None is *)
(* the empty tuple.  A header keeps message_id, source, destination and      *)
(* correlation; version (always 1) and timestamp are left out.               *)

NoId == <<>>

\* CorrelationEngine.__init__
CorrelationEngine == EmptyMap

\* A slip of generate_message_id: the counter value is not used.
generate_message_id_fixed(agent_id, ctr) == <<agent_id, 1>>

\* generate_message_id, given the value next(_message_id_counter) returned
generate_message_id(agent_id, ctr) == <<agent_id, ctr>>

\* the str "": its one part, split at "-", is empty
EmptyId == <<"">>

\* None where a Message or a Header is expected: a record without their fields
NoObject == [is_none |-> TRUE]

record_incoming(c, message) ==
    IF /\ "header" \in DOMAIN message
       /\ "message_id" \in DOMAIN message.header
       /\ message.header.message_id # NoId
    THEN Put(c, "last_received", message.header.message_id)
    ELSE c

create_response_header(c, agent_id, ctr, source, destination) ==
    [message_id |-> generate_message_id(agent_id, ctr),
     source |-> source, destination |-> destination,
     correlation |-> GetOr(c, "last_received", NoId)]

create_header_with_correlation(c, agent_id, ctr, source, destination, correlation_id) ==
    [message_id |-> generate_message_id(agent_id, ctr),
     source |-> source, destination |-> destination,
     correlation |-> correlation_id]

\* A slip of create_header_in_response_to: the stored slot is used.
create_header_in_response_to_slot(c, agent_id, ctr, source, destination, in_response_to) ==
    create_response_header(c, agent_id, ctr, source, destination)

create_header_in_response_to(c, agent_id, ctr, source, destination, in_response_to) ==
    [message_id |-> generate_message_id(agent_id, ctr),
     source |-> source, destination |-> destination,
     correlation |->
         IF "header" \in DOMAIN in_response_to
            /\ "message_id" \in DOMAIN in_response_to.header
         THEN in_response_to.header.message_id
         ELSE NoId]

\* CorrelationEngine.clear
correlation_clear(c) == EmptyMap

\* get_state: a copy of the mapping
get_state(c) == c

\* CorrelationEngine.load_state: the mapping becomes a copy of the given one
correlation_load_state(c, state) == state

----------------------------------------------------------------------------
(* minifier.py, visitor.py and parser.py.  A Python str that is taken apart  *)
(* is the sequence of its characters.  The text of a statement is the        *)
(* sequence of its chunks: a keyword, identifier or punctuation (word), a    *)
(* quoted string with its quotes and escapes (chars), or a raw stretch the   *)
(* lexer has yet to take apart (chars); the empty str is <<>>.  An optional  *)
(* str is None or the str.  The actions of the model have no arguments,      *)
(* policy or priority.                                                       *)

NoneStr == [is_none |-> TRUE, text |-> <<>>]

Str(text) == [is_none |-> FALSE, text |-> text]

ActionStatement(verb, reason) ==
    [verb |-> verb, args |-> <<>>, named_args |-> <<>>, reason |-> reason]

SubscribeStatement(topic, filter_expr) == [topic |-> topic, filter_expr |-> filter_expr]

UnsubscribeStatement(topic) == [topic |-> topic]

Chunk(t, word, chars) == [t |-> t, word |-> word, chars |-> chars]

\* s.replace(old, new)
RECURSIVE replace(_, _, _)
replace(s, old, new) ==
    IF Len(s) < Len(old) THEN s
    ELSE IF SubSeq(s, 1, Len(old)) = old
    THEN new \o replace(SubSeq(s, Len(old) + 1, Len(s)), old, new)
    ELSE <<Head(s)>> \o replace(Tail(s), old, new)

_escape_string(s) ==
    replace(replace(replace(replace(replace(s,
        <<"\\">>, <<"\\", "\\">>),
        <<"\"">>, <<"\\", "\"">>),
        <<"\n">>, <<"\\", "n">>),
        <<"\r">>, <<"\\", "r">>),
        <<"\t">>, <<"\\", "t">>)

_unquote(quoted) ==
    IF quoted # <<>> /\ Head(quoted) = "\"" /\ quoted[Len(quoted)] = "\""
    THEN replace(replace(replace(replace(replace(SubSeq(quoted, 2, Len(quoted) - 1),
             <<"\\", "\"">>, <<"\"">>),
             <<"\\", "\\">>, <<"\\">>),
             <<"\\", "n">>, <<"\n">>),
             <<"\\", "r">>, <<"\r">>),
             <<"\\", "t">>, <<"\t">>)
    ELSE quoted

\* op in s, for a str s and an operator op
InStr(s, op) ==
    \E i \in 1..(Len(s) - Len(op) + 1) : SubSeq(s, i, i + Len(op) - 1) = op

_minify_action(action) ==
    <<Chunk("keyword", "DO", <<>>), Chunk("ident", action.verb, <<>>),
      Chunk("punctuation", "(", <<>>), Chunk("punctuation", ")", <<>>)>>
    \o (IF action.reason.is_none THEN <<>>
        ELSE <<Chunk("keyword", "BECAUSE", <<>>)>>
             \o (IF \E op \in {<<">">>, <<"<">>, <<"=", "=">>, <<"!", "=">>} :
                        InStr(action.reason.text, op)
                 THEN <<Chunk("raw", "", action.reason.text)>>
                 ELSE <<Chunk("string", "",
                              <<"\"">> \o _escape_string(action.reason.text)
                                  \o <<"\"">>)>>))

\* _minify_statement: a statement that is none of the eight classes it tests
\* for (a KNOW, SUB or UNSUB statement) gives the empty str
_minify_statement(stmt) ==
    IF "verb" \in DOMAIN stmt THEN _minify_action(stmt) ELSE <<>>

\* to_minified_string: the header line and the minified statements
to_minified_string(message) ==
    [header |-> message.header,
     body |-> [i \in 1..Len(message.statements) |->
                  _minify_statement(message.statements[i])]]

\* the expressions of the grammar among the texts of the model
ExprTexts == { <<"a", ">", "1">>, <<"a", "&", "&", "b">>, <<"o", "k">> }

\* visitActionStmt, on the text of an action: the exception raised ("" for
\* none) and the statement.  A raw stretch after BECAUSE is lexed without its
\* blanks and has to be an expression.
visitActionStmt(text) ==
    LET NotBlank(c) == c # " "
        verb == text[2].word
    IN  IF Len(text) = 4 THEN [raised |-> "", stmt |-> ActionStatement(verb, NoneStr)]
        ELSE IF text[6].t = "string"
        THEN [raised |-> "",
              stmt |-> ActionStatement(verb, Str(_unquote(text[6].chars)))]
        ELSE IF SelectSeq(text[6].chars, NotBlank) \in ExprTexts
        THEN [raised |-> "",
              stmt |-> ActionStatement(verb,
                                       Str(SelectSeq(text[6].chars, NotBlank)))]
        ELSE [raised |-> "SAGParseException", stmt |-> ActionStatement(verb, NoneStr)]

\* SAGMessageParser.parse: the exception raised ("" for none) and the message.
\* Every statement starts with its keyword, so the empty texts are no
\* statements; whether a body without any statement is a syntax error is the
\* grammar's choice, given as empty_body_parses.
parse(wire, empty_body_parses) ==
    LET NotEmpty(text) == text # <<>>
        texts == SelectSeq(wire.body, NotEmpty)
        visited == [i \in 1..Len(texts) |-> visitActionStmt(texts[i])]
    IN  IF texts = <<>> /\ ~empty_body_parses
        THEN [raised |-> "SAGParseException"]
        ELSE IF \E i \in 1..Len(texts) : visited[i].raised # ""
        THEN [raised |-> "SAGParseException"]
        ELSE [raised |-> "",
              message |-> [header |-> wire.header,
                           statements |-> [i \in 1..Len(texts) |-> visited[i].stmt]]]

----------------------------------------------------------------------------
(* checkpoint.py.  A checkpoint id (a uuid4) is the number of the file.      *)
(* task and timestamp are left out of the document.                          *)

\* json.dumps of a fact value, and json.loads of what it wrote
json_value(v) ==
    [json |-> IF v.type = "str" THEN "string" ELSE "number", text |-> v.text]

py_value(j) ==
    [type |-> IF j.json = "string" THEN "str" ELSE "int", text |-> j.text]

NodeSnapshot(agent_id, k, c) ==
    [agent_id |-> agent_id, facts |-> k.facts,
     local_version |-> k.local_version, correlation_state |-> get_state(c)]

\* _meta_to_dict: every (value, version) tuple becomes a list
meta_to_dict(meta) ==
    [meta EXCEPT !.node_snapshots =
        [a \in DOMAIN @ |->
            [@[a] EXCEPT !.facts =
                [i \in 1..Len(@) |->
                    [key |-> @[i].topic, list |-> <<@[i].value, @[i].version>>]]]]]

\* _dict_to_meta: every list becomes a tuple again
dict_to_meta(data) ==
    [data EXCEPT !.node_snapshots =
        [a \in DOMAIN @ |->
            [@[a] EXCEPT !.facts =
                [i \in 1..Len(@) |->
                    KnowledgeStatement(@[i].key, @[i].list[1], @[i].list[2])]]]]

\* json.dumps of the document: the fact values become JSON values
json_dumps(data) ==
    [data EXCEPT !.node_snapshots =
        [a \in DOMAIN @ |->
            [@[a] EXCEPT !.facts =
                [i \in 1..Len(@) |->
                    [@[i] EXCEPT !.list = <<json_value(@[1]), @[2]>>]]]]]

\* json.loads of the file
json_loads(text) ==
    [text EXCEPT !.node_snapshots =
        [a \in DOMAIN @ |->
            [@[a] EXCEPT !.facts =
                [i \in 1..Len(@) |->
                    [@[i] EXCEPT !.list = <<py_value(@[1]), @[2]>>]]]]]

\* CheckpointManager.save: the files after the call; the new one is the last
save(fs, ns, kn, co, messages, agents_run, current_level, total_levels) ==
    LET meta ==
            [checkpoint_id |-> Len(fs) + 1,
             agents_run |-> agents_run,
             current_level |-> current_level,
             total_levels |-> total_levels,
             node_snapshots |->
                 [a \in DOMAIN ns |-> NodeSnapshot(a, kn[a], co[a])],
             messages |->
                 [i \in 1..Len(messages) |-> to_minified_string(messages[i])]]
    IN  Append(fs, json_dumps(meta_to_dict(meta)))

\* CheckpointManager.load: the exception raised ("" for none) and the meta.
\* A file that write_text has opened and not yet written in full holds a
\* part of the text (its pieces), which json.loads does not decode.
load(fs, checkpoint_id) ==
    IF checkpoint_id \notin 1..Len(fs)
    THEN [raised |-> "FileNotFoundError"]
    ELSE IF "pieces" \in DOMAIN fs[checkpoint_id]
    THEN [raised |-> "JSONDecodeError"]
    ELSE [raised |-> "", meta |-> dict_to_meta(json_loads(fs[checkpoint_id]))]

\* CheckpointManager.list_checkpoints: the metas of the files that decode
list_checkpoints(fs) ==
    LET Decodes(i) == load(fs, i).raised = ""
        ids == SelectSeq([i \in 1..Len(fs) |-> i], Decodes)
    IN  [k \in 1..Len(ids) |-> load(fs, ids[k]).meta]

\* A slip of restore: the correlation state is not loaded.
restore_noCorrelation(meta, ns, kn, co) ==
    [knowledge |->
        [a \in DOMAIN kn |->
            IF a \in DOMAIN meta.node_snapshots /\ a \in DOMAIN ns
            THEN knowledge_load_state(kn[a], meta.node_snapshots[a].facts,
                                      meta.node_snapshots[a].local_version)
            ELSE kn[a]],
     correlation |-> co]

\* A slip of restore: a node without a snapshot is emptied.
restore_emptied(meta, ns, kn, co) ==
    [knowledge |->
        [a \in DOMAIN kn |->
            IF a \in DOMAIN meta.node_snapshots /\ a \in DOMAIN ns
            THEN knowledge_load_state(kn[a], meta.node_snapshots[a].facts,
                                      meta.node_snapshots[a].local_version)
            ELSE knowledge_load_state(kn[a], <<>>, 0)],
     correlation |->
        [a \in DOMAIN co |->
            IF a \in DOMAIN meta.node_snapshots /\ a \in DOMAIN ns
            THEN correlation_load_state(co[a],
                                        meta.node_snapshots[a].correlation_state)
            ELSE co[a]]]

\* CheckpointManager.restore: the engines of the tree after the call
restore(meta, ns, kn, co) ==
    [knowledge |->
        [a \in DOMAIN kn |->
            IF a \in DOMAIN meta.node_snapshots /\ a \in DOMAIN ns
            THEN knowledge_load_state(kn[a], meta.node_snapshots[a].facts,
                                      meta.node_snapshots[a].local_version)
            ELSE kn[a]],
     correlation |->
        [a \in DOMAIN co |->
            IF a \in DOMAIN meta.node_snapshots /\ a \in DOMAIN ns
            THEN correlation_load_state(co[a],
                                        meta.node_snapshots[a].correlation_state)
            ELSE co[a]]]

----------------------------------------------------------------------------
(* grove.py: the state of an InteractiveGrove and of a running loop *)

\* InteractiveGrove.__init__, given a CheckpointManager
InteractiveGrove ==
    [levels |-> <<>>, current_level |-> 0, agents_run |-> 0,
     message_log |-> <<>>, setup_done |-> FALSE, checkpoint_mgr |-> TRUE]

\* no Grove.execute or InteractiveGrove.step call is running
Idle == [pc |-> "idle"]

\* a callback or a call of the loop body, as the trace records it; facts are
\* the topics the runner returned, for the runner call
Event(ev, node, facts) == [ev |-> ev, node |-> node, facts |-> facts]

RECURSIVE all_facts(_, _)
\* the entries of the children's fact maps, child by child
all_facts(kn, kids) ==
    IF kids = <<>> THEN <<>>
    ELSE kn[Head(kids)].facts \o all_facts(kn, Tail(kids))

\* child_facts[topic] = value, on a dict kept as a sequence of entries
child_facts_set(d, topic, value) ==
    IF \E i \in 1..Len(d) : d[i].topic = topic
    THEN [i \in 1..Len(d) |->
             IF d[i].topic = topic THEN [topic |-> topic, value |-> value]
             ELSE d[i]]
    ELSE Append(d, [topic |-> topic, value |-> value])

RECURSIVE child_facts_raw(_)
\* A slip of the gathering loop: the values are not stringified.
child_facts_raw(entries) ==
    IF entries = <<>> THEN <<>>
    ELSE LET e == entries[Len(entries)]
         IN  child_facts_set(child_facts_raw(SubSeq(entries, 1, Len(entries) - 1)),
                             e.topic, e.value)

RECURSIVE child_facts(_)
\* the gathering loop over the entries of the children's fact maps
child_facts(entries) ==
    IF entries = <<>> THEN <<>>
    ELSE LET e == entries[Len(entries)]
         IN  child_facts_set(child_facts(SubSeq(entries, 1, Len(entries) - 1)),
                             e.topic, str(e.value))

\* the value a runner gives a fact: a string that names the node
RunnerValue(agent_id) == PyStr(agent_id)

RECURSIVE run(_, _, _)
\* runner.run: the runner asserts its facts, one topic after the other
run(k, agent_id, topics) ==
    IF topics = <<>> THEN k
    ELSE run(assert_fact(k, Head(topics), RunnerValue(agent_id)), agent_id,
             Tail(topics))

\* A slip of _build_propagation_message: source and destination are swapped.
_build_propagation_message_swapped(c, ctr, child_id, parent_id, statements) ==
    [header |-> create_response_header(c, child_id, ctr, parent_id, child_id),
     statements |-> statements]

_build_propagation_message(c, ctr, child_id, parent_id, statements) ==
    [header |-> create_response_header(c, child_id, ctr, child_id, parent_id),
     statements |-> statements]

\* the body of the loop over the nodes of a level, for one node whose runner
\* returns the given topics: the engines and the counter after it, the
\* message it logged (if any), the child_facts the runner was given and the
\* callbacks it fired, in order
\* A slip of the visit: the parent does not record the message.
visit_unrecorded(ns, kn, co, ctr, n, topics) ==
    LET given == child_facts(all_facts(kn, ns[n].children))
        kn1 == [kn EXCEPT ![n] = run(@, n, topics)]
        parent == ns[n].parent
        r == propagate_up(ns, kn1, n)
        sent == parent # NoNode /\ r.ret # <<>>
        msg == _build_propagation_message(co[n], ctr, n, parent, r.ret)
    IN  [knowledge |-> IF parent = NoNode THEN kn1 ELSE r.knowledge,
         correlation |-> co,
         counter |-> IF sent THEN ctr + 1 ELSE ctr,
         messages |-> IF sent THEN <<msg>> ELSE <<>>,
         child_facts |-> given,
         events |->
             <<Event("on_agent_start", n, <<>>), Event("run", n, topics),
               Event("on_agent_done", n, <<>>)>>
             \o (IF parent # NoNode THEN <<Event("propagate_up", n, <<>>)>>
                 ELSE <<>>)
             \o (IF sent THEN <<Event("on_propagate", n, <<>>)>> ELSE <<>>)]

visit(ns, kn, co, ctr, n, topics) ==
    LET given == child_facts(all_facts(kn, ns[n].children))
        kn1 == [kn EXCEPT ![n] = run(@, n, topics)]
        parent == ns[n].parent
        r == propagate_up(ns, kn1, n)
        sent == parent # NoNode /\ r.ret # <<>>
        msg == _build_propagation_message(co[n], ctr, n, parent, r.ret)
    IN  [knowledge |-> IF parent = NoNode THEN kn1 ELSE r.knowledge,
         correlation |->
             IF sent THEN [co EXCEPT ![parent] = record_incoming(@, msg)] ELSE co,
         counter |-> IF sent THEN ctr + 1 ELSE ctr,
         messages |-> IF sent THEN <<msg>> ELSE <<>>,
         child_facts |-> given,
         events |->
             <<Event("on_agent_start", n, <<>>), Event("run", n, topics),
               Event("on_agent_done", n, <<>>)>>
             \o (IF parent # NoNode THEN <<Event("propagate_up", n, <<>>)>>
                 ELSE <<>>)
             \o (IF sent THEN <<Event("on_propagate", n, <<>>)>> ELSE <<>>)]

\* the state right after the tree t was built
InitWith(t) ==
    /\ nodes = t.nodes
    /\ root = t.root
    /\ knowledge = t.knowledge
    /\ correlation = t.correlation
    /\ counter = 1
    /\ files = <<>>
    /\ grove = InteractiveGrove
    /\ frame = Idle
    /\ trace = <<>>
    /\ asserted = [n \in DOMAIN t.nodes |-> {}]
    /\ minted = {}
    /\ saved = EmptyMap
    /\ folds = EmptyMap
    /\ heap = EmptyMap

----------------------------------------------------------------------------
(* The history variables `asserted` and `minted` *)

\* a step that does not keep the history
Quiet(A) == A /\ UNCHANGED <<asserted, minted, folds, heap>>

\* a step that keeps it: an assert_fact adds its topic to the node's set, and
\* any other write of an entry removes the entry's topic
Tracked(A) ==
    /\ A
    /\ asserted' =
           [n \in DOMAIN knowledge' |->
               IF last'.op = "assert_fact" /\ last'.node = n
               THEN asserted[n] \cup {last'.topic}
               ELSE { t \in asserted[n] :
                        /\ HasTopic(knowledge'[n].facts, t)
                        /\ dict_get(knowledge'[n].facts, t) =
                               dict_get(knowledge[n].facts, t) }]
    /\ UNCHANGED <<minted, folds, heap>>

----------------------------------------------------------------------------
(* The pattern matcher on its own: topic_matches applied to generated       *)
(* patterns and topics.                                                      *)

\* the inputs are drawn by Init; the one step applies topic_matches to them
TopicMatches ==
    /\ last.op = "input"
    /\ last' = [op |-> "topic_matches", pattern |-> last.pattern,
                topic |-> last.topic,
                ret |-> topic_matches(last.pattern, last.topic)]
    /\ UNCHANGED knowledge
    /\ UNCHANGED others

InitMatch ==
    /\ InitWith(TreeEngine)
    /\ \E pattern \in GenPatterns, topic \in GenTopics :
           last = [op |-> "input", pattern |-> pattern, topic |-> topic]

NextMatch == Quiet(TopicMatches)

SpecMatch == InitMatch /\ [][NextMatch]_vars

----------------------------------------------------------------------------
(* The calls on one node's KnowledgeEngine.  Each action takes the sets its  *)
(* inputs are drawn from, so that every specification can keep them small.   *)

TopicSet == { <<"a", Dot, "b">>, <<"b">> }

PatternSet == { <<"a", Dot, Star>>, <<Star, Star>> }

X == PyStr("x")

ValueSet == { X, PyStr("y") }

\* ids of peers that are not nodes of the tree
PeerSet == { "p", "q" }

Versions == 1..MaxVersion

StatementsOf(topics, values) ==
    { KnowledgeStatement(t, v, n) : t \in topics, v \in values, n \in Versions }

ListsUpTo(S, n) == UNION { [1..k -> S] : k \in 0..n }

AssertFact(n, topics, values) ==
    \E topic \in topics, value \in values :
        LET k2 == assert_fact(knowledge[n], topic, value)
        IN  /\ knowledge[n].local_version < MaxVersion
            /\ knowledge' = [knowledge EXCEPT ![n] = k2]
            /\ last' = [op |-> "assert_fact", node |-> n, topic |-> topic]
            /\ UNCHANGED others

ApplyIncoming(n, lists) ==
    \E statements \in lists, source_id \in {"p"} :
        LET res == apply_incoming(knowledge[n], statements, source_id)
        IN  /\ knowledge' = [knowledge EXCEPT ![n] = res.engine]
            /\ last' = [op |-> "apply_incoming", node |-> n,
                        given |-> Len(statements), ret |-> res.applied]
            /\ UNCHANGED others

AddSubscriber(n, peers, patterns) ==
    \E peer \in peers, pattern \in patterns :
        /\ knowledge' = [knowledge EXCEPT ![n] = add_subscriber(@, peer, pattern)]
        /\ last' = [op |-> "add_subscriber"]
        /\ UNCHANGED others

RemoveSubscriber(n, peers, patterns) ==
    \E peer \in peers, pattern \in patterns :
        /\ knowledge' = [knowledge EXCEPT ![n] = remove_subscriber(@, peer, pattern)]
        /\ last' = [op |-> "remove_subscriber"]
        /\ UNCHANGED others

AcknowledgeSync(n, peers) ==
    \E peer \in peers, version \in 0..MaxVersion :
        /\ knowledge' = [knowledge EXCEPT ![n] = acknowledge_sync(@, peer, version)]
        /\ last' = [op |-> "acknowledge_sync"]
        /\ UNCHANGED others

\* compute_delta assigns to no field of the engine
ComputeDelta(n, peers) ==
    \E peer \in peers :
        /\ last' = [op |-> "compute_delta", node |-> n, peer |-> peer,
                    ret |-> compute_delta(knowledge[n], peer)]
        /\ UNCHANGED knowledge
        /\ UNCHANGED others

\* one engine: the tree of a single agent
InitKnow ==
    /\ InitWith(add_root(TreeEngine, "root"))
    /\ last = [op |-> "init"]

\* Deltas: facts arrive by assert_fact and by single incoming statements, two
\* peers subscribe, unsubscribe and acknowledge, and compute_delta is asked
\* for both.
NextDelta ==
    \/ Quiet(AssertFact("root", TopicSet, {X}))
    \/ Quiet(ApplyIncoming("root", ListsUpTo(StatementsOf(TopicSet, {X}), 1)))
    \/ Quiet(AddSubscriber("root", PeerSet, PatternSet))
    \/ Quiet(RemoveSubscriber("root", PeerSet, PatternSet))
    \/ Quiet(AcknowledgeSync("root", PeerSet))
    \/ Quiet(ComputeDelta("root", PeerSet))

SpecDelta == InitKnow /\ [][NextDelta]_vars

\* the lists of statements given to apply_incoming: every topic and version,
\* one value (the engine's own asserts bring the other value)
IncomingLists == ListsUpTo(StatementsOf(TopicSet, {X}), MaxStmts)

\* Incoming statements: lists of statements meet asserted facts in an engine
\* that one peer subscribes to.
NextApply ==
    \/ Quiet(AssertFact("root", TopicSet, ValueSet))
    \/ Quiet(ApplyIncoming("root", IncomingLists))
    \/ Quiet(AddSubscriber("root", {"p"}, {<<Star, Star>>}))

SpecApply == InitKnow /\ [][NextApply]_vars

----------------------------------------------------------------------------
(* The calls on a tree of engines *)

SetupSubscriptions(patterns) ==
    \E pattern \in patterns :
        /\ knowledge' = setup_subscriptions(nodes, knowledge, pattern)
        /\ last' = [op |-> "setup_subscriptions"]
        /\ UNCHANGED others

\* child_id may be an id the tree does not know
PropagateUp(child_id) ==
    LET r == propagate_up(nodes, knowledge, child_id)
    IN  /\ knowledge' = r.knowledge
        /\ last' = [op |-> "propagate_up", child |-> child_id,
                    raised |-> r.raised, ret |-> r.ret]
        /\ UNCHANGED others

\* a parent and one child
PairTree == add_child(add_root(TreeEngine, "root"), "root", "a")

InitTree ==
    /\ InitWith(PairTree)
    /\ last = [op |-> "init"]

\* Propagation: parent and child assert facts, receive single statements from
\* outside, are wired with a pattern that matches one of the two topics, and
\* propagate upwards.
NextTree ==
    \/ \E n \in DOMAIN knowledge : Quiet(AssertFact(n, TopicSet, {X}))
    \/ \E n \in DOMAIN knowledge :
           Quiet(ApplyIncoming(n, ListsUpTo(StatementsOf(TopicSet, {X}), 1)))
    \/ Quiet(SetupSubscriptions({<<"a", Dot, Star>>}))
    \/ \E c \in DOMAIN nodes \cup {"ghost"} : Quiet(PropagateUp(c))

SpecTree == InitTree /\ [][NextTree]_vars

\* the pair after tree.setup_subscriptions("**")
WiredPair ==
    [PairTree EXCEPT !.knowledge =
        setup_subscriptions(PairTree.nodes, PairTree.knowledge, <<Star, Star>>)]

InitOwn ==
    /\ InitWith(WiredPair)
    /\ last = [op |-> "init"]

\* Whose version a fact carries: in a wired pair both nodes assert facts, the
\* child receives single statements from outside and propagates upwards, and
\* the history of who wrote each entry is kept.
NextOwn ==
    \/ \E n \in DOMAIN knowledge : Tracked(AssertFact(n, TopicSet, {X}))
    \/ Tracked(ApplyIncoming("a", ListsUpTo(StatementsOf(TopicSet, {X}), 1)))
    \/ \E c \in DOMAIN nodes : Tracked(PropagateUp(c))

SpecOwn == InitOwn /\ [][NextOwn]_vars

----------------------------------------------------------------------------
(* Calls on the correlation engines and on the checkpoint manager *)

\* a message from outside the tree, as record_incoming reads it
Incoming(message_id) ==
    [header |-> [message_id |-> message_id, source |-> "p",
                 destination |-> "root", correlation |-> NoId],
     statements |-> <<>>]

RecordIncoming(n, ids) ==
    \E message_id \in ids :
        /\ correlation' =
               [correlation EXCEPT ![n] = record_incoming(@, Incoming(message_id))]
        /\ last' = [op |-> "record_incoming", node |-> n]
        /\ UNCHANGED <<nodes, root, knowledge, counter, files, grove, frame,
                       trace, saved>>

CorrelationClear(n) ==
    /\ correlation' = [correlation EXCEPT ![n] = correlation_clear(@)]
    /\ last' = [op |-> "clear", node |-> n]
    /\ UNCHANGED <<nodes, root, knowledge, counter, files, grove, frame,
                   trace, saved>>

\* what save is given by InteractiveGrove.checkpoint, and the record of the
\* state it saw
Save ==
    /\ frame = Idle
    /\ Len(files) < MaxCheckpoints
    /\ files' = save(files, nodes, knowledge, correlation, grove.message_log,
                     grove.agents_run, grove.current_level, Len(grove.levels))
    /\ saved' = Put(saved, Len(files) + 1,
                    [knowledge |-> knowledge, correlation |-> correlation,
                     grove |-> grove])
    /\ last' = [op |-> "save", id |-> Len(files) + 1]
    /\ UNCHANGED <<nodes, root, knowledge, correlation, counter, grove, frame,
                   trace>>

\* restore(load(checkpoint_id), tree); load raises for an id without a file
Restore(checkpoint_id) ==
    LET loaded == load(files, checkpoint_id)
        r == restore(loaded.meta, nodes, knowledge, correlation)
    IN  IF loaded.raised # ""
        THEN /\ last' = [op |-> "restore", id |-> checkpoint_id,
                         raised |-> loaded.raised, changed |-> FALSE]
             /\ UNCHANGED <<knowledge, correlation>>
             /\ UNCHANGED <<nodes, root, counter, files, grove, frame, trace,
                            saved>>
        ELSE /\ knowledge' = r.knowledge
             /\ correlation' = r.correlation
             /\ last' = [op |-> "restore", id |-> checkpoint_id, raised |-> "",
                         changed |-> (r.knowledge # knowledge
                                      \/ r.correlation # correlation)]
             /\ UNCHANGED <<nodes, root, counter, files, grove, frame, trace,
                            saved>>

InitCheckpoint ==
    /\ InitWith(add_root(TreeEngine, "root"))
    /\ last = [op |-> "init"]

\* Save and restore: the root asserts one topic and receives statements on
\* the other, records and forgets incoming messages, and checkpoints are saved
\* and restored (by ids with and without a file) at any moment.
NextCheckpoint ==
    \/ Quiet(AssertFact("root", {<<"b">>}, {X}))
    \/ Quiet(ApplyIncoming("root",
              ListsUpTo(StatementsOf({<<"a", Dot, "b">>}, {PyInt("7")}), 1)))
    \/ Quiet(RecordIncoming("root", {<<"p", 1>>, NoId}))
    \/ Quiet(CorrelationClear("root"))
    \/ Quiet(Save)
    \/ \E id \in 1..(MaxCheckpoints + 1) : Quiet(Restore(id))

SpecCheckpoint == InitCheckpoint /\ [][NextCheckpoint]_vars

----------------------------------------------------------------------------
(* Calls on a Grove and on an InteractiveGrove that share the tree.  A call  *)
(* of execute or step is entered, visits its nodes one by one and returns;   *)
(* nothing else runs in between.  Every callback is configured.              *)

\* the topics a node's runner is configured with (the node's metadata)
RunnerTopics(n) ==
    IF n = "a" THEN << <<"b">>, <<"a", Dot, "b">> >>
    ELSE << <<"a", Dot, "b">>, <<"b">> >>

\* the topics a runner may return: the first few of its node's topics, at most
\* MaxAsserts and no more than the cap on the local version leaves room for
RunnerFacts(n, k) ==
    { SubSeq(RunnerTopics(n), 1, len) :
        len \in { x \in 0..MaxAsserts :
                    /\ x <= Len(RunnerTopics(n))
                    /\ k.local_version + x <= MaxVersion } }

\* InteractiveGrove.setup
Setup ==
    /\ frame = Idle
    /\ knowledge' = setup_subscriptions(nodes, knowledge, <<Star, Star>>)
    /\ grove' = [grove EXCEPT !.levels = get_levels_bottom_up(nodes, root),
                              !.current_level = 0, !.agents_run = 0,
                              !.message_log = <<>>, !.setup_done = TRUE]
    /\ trace' = <<>>
    /\ last' = [op |-> "setup"]
    /\ UNCHANGED <<nodes, root, correlation, counter, files, frame, saved>>

\* InteractiveGrove.step, up to the loop: the two checks, and the level
StepEnter ==
    /\ frame = Idle
    /\ IF ~grove.setup_done \/ grove.current_level >= Len(grove.levels)
       THEN /\ last' = [op |-> "step", raised |-> "RuntimeError",
                        resumed |-> IF last.op = "rollback" /\ last.raised = ""
                                    THEN last.id ELSE 0]
            /\ UNCHANGED frame
       ELSE /\ frame' = [pc |-> "step",
                         level |-> grove.levels[grove.current_level + 1],
                         i |-> 1, agents_run_ids |-> <<>>,
                         resumed |-> IF last.op = "rollback" /\ last.raised = ""
                                     THEN last.id ELSE 0]
            /\ last' = [op |-> "enter"]
    /\ UNCHANGED <<nodes, root, knowledge, correlation, counter, files, grove,
                   trace, saved>>

\* one turn of the loop of step
StepVisit ==
    /\ frame.pc = "step"
    /\ frame.i <= Len(frame.level)
    /\ LET n == frame.level[frame.i]
       IN  \E topics \in RunnerFacts(n, knowledge[n]) :
               LET v == visit(nodes, knowledge, correlation, counter, n, topics)
               IN  /\ knowledge' = v.knowledge
                   /\ correlation' = v.correlation
                   /\ counter' = v.counter
                   /\ grove' = [grove EXCEPT !.agents_run = @ + 1,
                                             !.message_log = @ \o v.messages]
                   /\ frame' = [frame EXCEPT !.i = @ + 1,
                                             !.agents_run_ids = Append(@, n)]
                   /\ trace' = trace \o v.events
                   /\ last' = [op |-> "visit", node |-> n,
                               child_facts |-> v.child_facts]
    /\ UNCHANGED <<nodes, root, files, saved>>

\* A slip of step: the current level is not advanced.
StepReturn_stay ==
    /\ frame.pc = "step"
    /\ frame.i > Len(frame.level)
    /\ frame' = Idle
    /\ last' = [op |-> "step", raised |-> "",
                level |-> grove.current_level,
                agents_run |-> frame.agents_run_ids,
                is_complete |-> grove.current_level + 1 >= Len(grove.levels),
                resumed |-> frame.resumed]
    /\ UNCHANGED <<nodes, root, knowledge, correlation, counter, files, grove,
                   trace, saved>>

\* the end of step: the StepResult
StepReturn ==
    /\ frame.pc = "step"
    /\ frame.i > Len(frame.level)
    /\ grove' = [grove EXCEPT !.current_level = @ + 1]
    /\ frame' = Idle
    /\ last' = [op |-> "step", raised |-> "",
                level |-> grove.current_level,
                agents_run |-> frame.agents_run_ids,
                is_complete |-> grove.current_level + 1 >= Len(grove.levels),
                resumed |-> frame.resumed]
    /\ UNCHANGED <<nodes, root, knowledge, correlation, counter, files, trace,
                   saved>>

\* Grove.execute, up to the loops; it is not started in the middle of an
\* interactive run on the same tree
ExecuteEnter ==
    /\ frame = Idle
    /\ ~grove.setup_done \/ grove.current_level >= Len(grove.levels)
    /\ knowledge' = setup_subscriptions(nodes, knowledge, <<Star, Star>>)
    /\ frame' = [pc |-> "execute", levels |-> get_levels_bottom_up(nodes, root),
                 l |-> 1, i |-> 1, message_log |-> <<>>, agents_run |-> 0]
    /\ trace' = <<>>
    /\ last' = [op |-> "enter"]
    /\ UNCHANGED <<nodes, root, correlation, counter, files, grove, saved>>

\* one turn of the inner loop of execute
ExecuteVisit ==
    /\ frame.pc = "execute"
    /\ frame.l <= Len(frame.levels)
    /\ LET n == frame.levels[frame.l][frame.i]
           more == frame.i < Len(frame.levels[frame.l])
       IN  \E topics \in RunnerFacts(n, knowledge[n]) :
               LET v == visit(nodes, knowledge, correlation, counter, n, topics)
               IN  /\ knowledge' = v.knowledge
                   /\ correlation' = v.correlation
                   /\ counter' = v.counter
                   /\ frame' = [frame EXCEPT
                                   !.l = IF more THEN @ ELSE @ + 1,
                                   !.i = IF more THEN @ + 1 ELSE 1,
                                   !.message_log = @ \o v.messages,
                                   !.agents_run = @ + 1]
                   /\ trace' = trace \o v.events
                   /\ last' = [op |-> "visit", node |-> n,
                               child_facts |-> v.child_facts]
    /\ UNCHANGED <<nodes, root, files, grove, saved>>

\* the end of execute: the GroveResult
ExecuteReturn ==
    /\ frame.pc = "execute"
    /\ frame.l > Len(frame.levels)
    /\ frame' = Idle
    /\ last' = [op |-> "execute", facts |-> knowledge[root].facts,
                messages |-> frame.message_log,
                agents_run |-> frame.agents_run,
                levels_processed |-> Len(frame.levels)]
    /\ UNCHANGED <<nodes, root, knowledge, correlation, counter, files, grove,
                   trace, saved>>

\* InteractiveGrove.edit_fact on a node of the tree
EditFact(n, topics, values) ==
    /\ frame = Idle
    /\ \E topic \in topics, value \in values :
           /\ knowledge[n].local_version < MaxVersion
           /\ knowledge' = [knowledge EXCEPT ![n] = assert_fact(@, topic, value)]
           /\ last' = [op |-> "edit_fact", node |-> n, topic |-> topic]
    /\ UNCHANGED others

\* InteractiveGrove.rollback; load raises for an id without a file, and
\* whether a wire text without statements parses is the grammar's choice
Rollback(checkpoint_id) ==
    /\ frame = Idle
    /\ LET loaded == load(files, checkpoint_id)
       IN  IF loaded.raised # ""
           THEN /\ last' = [op |-> "rollback", id |-> checkpoint_id,
                            raised |-> loaded.raised]
                /\ UNCHANGED <<knowledge, correlation, grove, trace>>
           ELSE \E empty_body_parses \in BOOLEAN :
                    LET meta == loaded.meta
                        r == restore(meta, nodes, knowledge, correlation)
                        parsed == [i \in 1..Len(meta.messages) |->
                                      parse(meta.messages[i], empty_body_parses)]
                        Good(x) == x.raised = ""
                        good == SelectSeq(parsed, Good)
                    IN  /\ knowledge' = r.knowledge
                        /\ correlation' = r.correlation
                        /\ grove' = [grove EXCEPT
                                        !.current_level = meta.current_level,
                                        !.agents_run = meta.agents_run,
                                        !.message_log =
                                            [i \in 1..Len(good) |-> good[i].message]]
                        /\ trace' = <<>>
                        /\ last' = [op |-> "rollback", id |-> checkpoint_id,
                                    raised |-> ""]
    /\ UNCHANGED <<nodes, root, counter, files, frame, saved>>

\* a root with two children
FanTree ==
    add_child(add_child(add_root(TreeEngine, "root"), "root", "a"), "root", "b")

InitGrove ==
    /\ InitWith(FanTree)
    /\ last = [op |-> "init"]

\* Runs without rollback: execute runs and then interactive runs, one after
\* the other on the same tree of a root and two children, with a fact of the
\* second child edited between the calls.
NextGrove ==
    \/ Quiet(Setup)
    \/ Quiet(StepEnter)
    \/ Quiet(StepVisit)
    \/ Quiet(StepReturn)
    \/ Quiet(~grove.setup_done /\ ExecuteEnter)
    \/ Quiet(ExecuteVisit)
    \/ Quiet(ExecuteReturn)
    \/ Quiet(EditFact("b", {<<"b">>}, {PyInt("7")}))

SpecGrove == InitGrove /\ [][NextGrove]_vars

\* a root with two children, one of which has a child of its own
GroveTree ==
    add_child(add_child(add_child(add_root(TreeEngine, "root"), "root", "a"),
                        "root", "b"), "a", "c")

InitOrder ==
    /\ InitWith(GroveTree)
    /\ last = [op |-> "init"]

\* no run has begun on the tree
Fresh == trace = <<>> /\ ~grove.setup_done

\* One run on a fresh tree of three levels, by execute or step by step, with
\* facts of the nodes edited before the run and between the steps.
NextOrder ==
    \/ Quiet(Fresh /\ Setup)
    \/ Quiet(StepEnter)
    \/ Quiet(StepVisit)
    \/ Quiet(StepReturn)
    \/ Quiet(Fresh /\ ExecuteEnter)
    \/ Quiet(ExecuteVisit)
    \/ Quiet(ExecuteReturn)
    \/ \E n \in {"a", "c"} : Quiet(EditFact(n, {<<"b">>}, {PyInt("7")}))

SpecOrder == InitOrder /\ [][NextOrder]_vars

InitRollback ==
    /\ InitWith(PairTree)
    /\ last = [op |-> "init"]

\* Checkpoints and rollbacks in one interactive run on a parent and a child:
\* between the steps a fact of the child is edited, checkpoints are taken
\* (from setup on), and the run is rolled back (by ids with and without a file).
NextRollback ==
    \/ Quiet(Fresh /\ Setup)
    \/ Quiet(StepEnter)
    \/ Quiet(StepVisit)
    \/ Quiet(StepReturn)
    \/ Quiet(EditFact("a", {<<"b">>}, {PyInt("7")}))
    \/ Quiet(grove.setup_done /\ Save)
    \/ \E id \in 1..(MaxCheckpoints + 1) : Quiet(Rollback(id))

SpecRollback == InitRollback /\ [][NextRollback]_vars

----------------------------------------------------------------------------
(* What a pattern means, segment by segment *)

\* the reading in which * stands for one segment wherever it occurs
SegMatchAnywhere(p, t) ==
    IF p[Len(p)] = <<Star, Star>>
    THEN /\ Len(t) >= Len(p) - 1
         /\ \A i \in 1..(Len(p) - 1) : p[i] = <<Star>> \/ p[i] = t[i]
    ELSE /\ Len(t) = Len(p)
         /\ \A i \in 1..Len(p) : p[i] = <<Star>> \/ p[i] = t[i]

\* the reading in which only the last segment of a pattern of two or more
\* segments is a wildcard (or the pattern is the bare **), and every other
\* segment is compared literally
SegMatchTerminal(p, t) ==
    IF p[Len(p)] = <<Star, Star>>
    THEN /\ Len(t) >= Len(p) - 1
         /\ \A i \in 1..(Len(p) - 1) : p[i] = t[i]
    ELSE IF p[Len(p)] = <<Star>> /\ Len(p) >= 2
    THEN /\ Len(t) = Len(p)
         /\ \A i \in 1..(Len(p) - 1) : p[i] = t[i]
    ELSE p = t

\* C5 as stated: topic_matches agrees with the reading in which a * segment at
\* any position matches exactly one topic segment and a terminal ** matches any
\* suffix, the empty one included.
C5_AnyPosition ==
    last.op = "topic_matches" =>
        last.ret = SegMatchAnywhere(Split(last.pattern), Split(last.topic))

\* C5 amended: topic_matches(pattern, topic) holds iff pattern and topic
\* correspond segment by segment, where * is a wildcard for exactly one segment
\* only as the last segment of a pattern of at least two segments, a terminal **
\* matches any suffix including the empty one, and every other segment (a * that
\* is not last, a bare *) must equal the topic's segment literally.  So
\* matches("**", t) holds for every t, matches("a.*", t) iff t has exactly one
\* segment after "a.", and matches("a.**", t) iff t is "a" or begins with "a.".
C5_TerminalWildcards ==
    last.op = "topic_matches" =>
        /\ last.ret = SegMatchTerminal(Split(last.pattern), Split(last.topic))
        /\ last.pattern = <<Star, Star>> => last.ret
        /\ last.pattern = <<"a", Dot, Star>> =>
              (last.ret <=> /\ startswith(last.topic, <<"a", Dot>>)
                            /\ Len(Split(last.topic)) = 2)
        /\ last.pattern = <<"a", Dot, Star, Star>> =>
              (last.ret <=> \/ last.topic = <<"a">>
                            \/ startswith(last.topic, <<"a", Dot>>))

\* a * that ends a longer pattern matched a topic segment, and a ** matched a
\* suffix of two segments
C5_Witness ==
    /\ last.op = "topic_matches"
    /\ last.ret
    /\ last.pattern = <<"a", Dot, "b", Dot, Star>>
    /\ last.topic = <<"a", Dot, "b", Dot, "a", "b">>

----------------------------------------------------------------------------
(* compute_delta *)

\* delta is what peer P is due from engine k: the facts newer than P's entry
\* of the version vector that match a pattern of P, once each, oldest first
DeltaIsDue(k, P, delta) ==
    LET seen == GetOr(k.version_vectors, P, 0)
        pats == GetOr(k.subscribers, P, {})
        Due(f) == f.version > seen /\ \E p \in pats : topic_matches(p, f.topic)
    IN  /\ \A i \in 1..Len(k.facts) :
               Due(k.facts[i]) <=> \E j \in 1..Len(delta) : delta[j] = k.facts[i]
        /\ \A j \in 1..Len(delta) : delta[j] \in Range(k.facts)
        /\ \A i, j \in 1..Len(delta) : i < j =>
               /\ delta[i].topic # delta[j].topic
               /\ delta[i].version <= delta[j].version
        /\ pats = {} => delta = <<>>

\* C2: in every engine state reached by assert_fact, apply_incoming,
\* add_subscriber, remove_subscriber and acknowledge_sync, and for every peer
\* P (one the engine never heard of included), compute_delta(P) is exactly the
\* facts with version > version_vectors[P] (0 if absent) whose topic matches a
\* pattern of P, each once, in ascending version order, and empty when P has no
\* pattern; and a delta that was returned is still the delta of the engine the
\* call left behind, which it did not modify.
C2_DeltaExact ==
    \A n \in DOMAIN knowledge :
        /\ \A P \in PeerSet \cup {"z"} :
               DeltaIsDue(knowledge[n], P, compute_delta(knowledge[n], P))
        /\ (last.op = "compute_delta" /\ last.node = n) =>
               DeltaIsDue(knowledge[n], last.peer, last.ret)

\* a delta left out a fact that matches but was acknowledged, and kept a newer one
C2_Witness ==
    /\ last.op = "compute_delta"
    /\ Len(last.ret) = 1
    /\ LET k == knowledge[last.node]
       IN  /\ Len(k.facts) = 2
           /\ <<Star, Star>> \in GetOr(k.subscribers, last.peer, {})
           /\ GetOr(k.version_vectors, last.peer, 0) = 1
           /\ last.ret[1].version = 2

----------------------------------------------------------------------------
(* apply_incoming *)

\* statement i of the list is one the engine k has to accept: no entry for its
\* topic, or an older one, is stored, and no earlier statement of the list
\* brought that topic at the same or a higher version
MustAccept(k, statements, i) ==
    LET s == statements[i]
    IN  /\ \/ ~HasTopic(k.facts, s.topic)
           \/ s.version > dict_get(k.facts, s.topic).version
        /\ \A j \in 1..(i - 1) :
               statements[j].topic = s.topic => s.version > statements[j].version

\* the r-th smallest member of a set of indices
Nth(S, r) == CHOOSE i \in S : Cardinality({ j \in S : j <= i }) = r

\* res is what apply_incoming(k, statements) has to produce
ApplyIsRight(k, statements, res) ==
    LET acc == { i \in 1..Len(statements) : MustAccept(k, statements, i) }
        k2 == res.engine
    IN  /\ Len(res.applied) = Cardinality(acc)
        /\ \A r \in 1..Len(res.applied) : res.applied[r] = statements[Nth(acc, r)]
        /\ \A t \in Topics(k.facts) \cup Topics(k2.facts) :
               LET on == { i \in acc : statements[i].topic = t }
               IN  IF on = {}
                   THEN /\ HasTopic(k.facts, t) /\ HasTopic(k2.facts, t)
                        /\ dict_get(k2.facts, t) = dict_get(k.facts, t)
                   ELSE /\ HasTopic(k2.facts, t)
                        /\ dict_get(k2.facts, t) = statements[MaxOf(on)]
        /\ \A i \in acc : HasTopic(k2.facts, statements[i].topic)
        /\ k2.local_version = k.local_version
        /\ k2.subscriptions = k.subscriptions
        /\ k2.subscribers = k.subscribers
        /\ k2.version_vectors = k.version_vectors

\* C3: for every reachable engine and every list of KNOW statements,
\* apply_incoming accepts a statement iff its topic is absent from the fact map
\* or its version is strictly greater than the stored one (as the map stands
\* when the statement's turn comes); an accepted statement overwrites the entry
\* with (value, version), a rejected one leaves it alone; the returned list is
\* the accepted statements in input order; local_version, subscriptions,
\* subscribers and the version vector are unchanged.
C3_ApplyIncoming ==
    \A n \in DOMAIN knowledge :
        \A statements \in IncomingLists :
            ApplyIsRight(knowledge[n], statements,
                         apply_incoming(knowledge[n], statements, "p"))

\* a call with two statements accepted one and rejected the other, in an engine
\* that has asserted facts of its own and a subscriber
C3_Witness ==
    /\ last.op = "apply_incoming"
    /\ last.given = 2
    /\ Len(last.ret) = 1
    /\ LET k == knowledge[last.node]
       IN  /\ dict_get(k.facts, last.ret[1].topic) = last.ret[1]
           /\ k.local_version = 1
           /\ Len(k.facts) = 2
           /\ k.subscribers # EmptyMap

----------------------------------------------------------------------------
(* Whose version a stored fact carries *)

\* the reading of C4 as it stands: every stored fact, whoever wrote it, has a
\* version at most the local version of the engine that stores it
C4_AllFacts ==
    \A n \in DOMAIN knowledge :
        \A i \in 1..Len(knowledge[n].facts) :
            knowledge[n].facts[i].version <= knowledge[n].local_version

\* C4: in every state a node's engine reaches by assert_fact, apply_incoming
\* and propagate_up in a tree, every stored fact that the engine's own
\* assert_fact wrote last has a version of at least 1 and at most the engine's
\* local_version; a fact accepted from another engine keeps its sender's
\* version, which the local version does not bound.
C4_OwnedFacts ==
    \A n \in DOMAIN knowledge :
        \A t \in asserted[n] :
            /\ HasTopic(knowledge[n].facts, t)
            /\ dict_get(knowledge[n].facts, t).version >= 1
            /\ dict_get(knowledge[n].facts, t).version <= knowledge[n].local_version

\* the parent has just accepted a propagated fact that is newer than anything
\* it asserted, next to a fact of its own
C4_Witness ==
    /\ last.op = "propagate_up"
    /\ last.ret # <<>>
    /\ asserted["root"] # {}
    /\ \E i \in 1..Len(knowledge["root"].facts) :
           /\ knowledge["root"].facts[i].topic \notin asserted["root"]
           /\ knowledge["root"].facts[i].version > knowledge["root"].local_version

----------------------------------------------------------------------------
(* What propagate_up does *)

\* the effect of propagate_up(c) on the engines kn of the tree ns
PropagateIsRight(ns, kn, c) ==
    LET r == propagate_up(ns, kn, c)
    IN  IF c \notin DOMAIN ns
        THEN r.raised = "KeyError" /\ r.knowledge = kn
        ELSE IF ns[c].parent = NoNode
        THEN r.raised = "" /\ r.ret = <<>> /\ r.knowledge = kn
        ELSE LET p == ns[c].parent
                 delta == compute_delta(kn[c], p)
                 again == propagate_up(ns, r.knowledge, c)
             IN  /\ r.raised = ""
                 /\ ApplyIsRight(kn[p], delta,
                                 [engine |-> r.knowledge[p], applied |-> r.ret])
                 /\ IF delta = <<>>
                    THEN r.knowledge[c] = kn[c]
                    ELSE /\ p \in DOMAIN r.knowledge[c].version_vectors
                         /\ r.knowledge[c].version_vectors[p] =
                                MaxOf({ delta[i].version : i \in 1..Len(delta) })
                         /\ r.knowledge[c].version_vectors[p] >
                                GetOr(kn[c].version_vectors, p, 0)
                         /\ \A q \in DOMAIN kn[c].version_vectors \ {p} :
                                r.knowledge[c].version_vectors[q] =
                                    kn[c].version_vectors[q]
                         /\ DOMAIN r.knowledge[c].version_vectors =
                                DOMAIN kn[c].version_vectors \cup {p}
                         /\ [r.knowledge[c] EXCEPT !.version_vectors = EmptyMap] =
                                [kn[c] EXCEPT !.version_vectors = EmptyMap]
                 /\ \A n \in DOMAIN ns \ {c, p} : r.knowledge[n] = kn[n]
                 /\ again.raised = ""
                 /\ again.ret = <<>>
                 /\ again.knowledge = r.knowledge

\* C8: in every reachable tree, propagate_up(child) for a non-root child
\* applies compute_delta(parent) of the child to the parent as apply_incoming
\* does, raises the child's version_vectors[parent] to the greatest version of
\* a non-empty delta and touches nothing else, returns exactly the statements
\* the parent accepted, and repeated at once returns the empty list and
\* changes no state; for the root it returns the empty list and changes
\* nothing; for an unknown id it raises KeyError and changes nothing.
C8_PropagateUp ==
    \A c \in DOMAIN nodes \cup {"ghost"} : PropagateIsRight(nodes, knowledge, c)

\* the child has just propagated to a parent that had facts of its own: the
\* parent accepted a statement and the child recorded how far it got
C8_Witness ==
    /\ last.op = "propagate_up"
    /\ last.child = "a"
    /\ last.raised = ""
    /\ last.ret # <<>>
    /\ knowledge["root"].local_version > 0
    /\ GetOr(knowledge["a"].version_vectors, "root", 0) > 0
    /\ dict_get(knowledge["root"].facts, last.ret[1].topic) = last.ret[1]

----------------------------------------------------------------------------
(* Save, load and restore *)

\* C6: whatever assert_fact, apply_incoming, record_incoming and clear did
\* to the tree since a checkpoint was saved, restore(load(id)) leaves every
\* node with the fact map (topics, values, versions, in the same order), the
\* local_version and the correlation state it had when the checkpoint was
\* saved.
C6_RestoreRoundTrip ==
    \A id \in DOMAIN saved :
        LET loaded == load(files, id)
            r == restore(loaded.meta, nodes, knowledge, correlation)
        IN  /\ loaded.raised = ""
            /\ \A n \in DOMAIN nodes :
                   /\ r.knowledge[n].facts = saved[id].knowledge[n].facts
                   /\ r.knowledge[n].local_version =
                          saved[id].knowledge[n].local_version
                   /\ r.correlation[n] = saved[id].correlation[n]

\* a restore has just undone changes made after the save, and brought back
\* an asserted string, an accepted number and a recorded message id
C6_Witness ==
    /\ last.op = "restore"
    /\ last.raised = ""
    /\ last.changed
    /\ Len(knowledge["root"].facts) = 2
    /\ knowledge["root"].local_version = 1
    /\ correlation["root"] # EmptyMap
    /\ knowledge["root"] = saved[last.id].knowledge["root"]

----------------------------------------------------------------------------
(* The order of a run *)

RECURSIVE Depth(_)
\* the number of links between a node and the root
Depth(n) == IF nodes[n].parent = NoNode THEN 0 ELSE 1 + Depth(nodes[n].parent)

RECURSIVE IsAncestor(_, _)
IsAncestor(d, a) ==
    /\ nodes[a].parent # NoNode
    /\ (nodes[a].parent = d \/ IsAncestor(d, nodes[a].parent))

\* the event ev of node n is in the trace before position j
Before(ev, n, j) ==
    \E i \in 1..(j - 1) : trace[i].ev = ev /\ trace[i].node = n

\* C1: in a run of execute, or of setup and steps without rollback, when
\* on_agent_start fires for a node, every node one level deeper has had its
\* runner call, its on_agent_done callback and its propagate_up, and every
\* descendant of the node has had its on_agent_done; and no node starts twice.
C1_BottomUp ==
    \A j \in 1..Len(trace) :
        trace[j].ev = "on_agent_start" =>
            /\ \A m \in DOMAIN nodes :
                   Depth(m) = Depth(trace[j].node) + 1 =>
                       /\ Before("run", m, j)
                       /\ Before("on_agent_done", m, j)
                       /\ Before("propagate_up", m, j)
            /\ \A a \in DOMAIN nodes :
                   IsAncestor(trace[j].node, a) => Before("on_agent_done", a, j)
            /\ ~Before("on_agent_start", trace[j].node, j)

\* an interactive run has ended with the step of the root, after the
\* grandchild and both children propagated facts
C1_Witness ==
    /\ last.op = "step"
    /\ last.raised = ""
    /\ last.is_complete
    /\ trace[Len(trace)] = Event("on_agent_done", "root", <<>>)
    /\ \A n \in {"a", "b", "c"} :
           \E i \in 1..Len(trace) : trace[i] = Event("on_propagate", n, <<>>)

----------------------------------------------------------------------------
(* Rollback *)

\* C7: right after rollback(id) every node has the fact map and the
\* local_version, and the grove the current level and the agents-run count,
\* that they had when checkpoint() returned id; and the step called next
\* processes the level with that index, the nodes of that level of the run,
\* or raises when the saved index is past the last level.
C7_Rollback ==
    /\ (last.op = "rollback" /\ last.raised = "") =>
           /\ \A n \in DOMAIN nodes :
                  /\ knowledge[n].facts = saved[last.id].knowledge[n].facts
                  /\ knowledge[n].local_version =
                         saved[last.id].knowledge[n].local_version
           /\ grove.current_level = saved[last.id].grove.current_level
           /\ grove.agents_run = saved[last.id].grove.agents_run
    /\ (last.op = "step" /\ last.resumed # 0) =>
           LET was == saved[last.resumed].grove.current_level
           IN  IF last.raised = ""
               THEN /\ last.level = was
                    /\ was < Len(grove.levels)
                    /\ last.agents_run = grove.levels[was + 1]
                    /\ grove.current_level = was + 1
               ELSE /\ ~grove.setup_done \/ was >= Len(grove.levels)
                    /\ grove.current_level = was

\* a checkpoint was taken after the child's level; the root's level ran, the
\* run was rolled back, and the step that followed ran the root's level again
C7_Witness ==
    /\ last.op = "step"
    /\ last.raised = ""
    /\ last.resumed = 1
    /\ last.level = 1
    /\ last.agents_run = <<"root">>
    /\ saved[1].knowledge["a"].local_version > 0
    /\ grove.agents_run = 2

----------------------------------------------------------------------------
(* What a runner is given, and what a parent holds *)

\* the last child of p, in the order of p's children, that holds topic t
LastHolder(p, t) ==
    LET kids == nodes[p].children
        at == MaxOf({ i \in 1..Len(kids) : HasTopic(knowledge[kids[i]].facts, t) })
    IN  kids[at]

\* C9: the child_facts a node's runner was given in execute or step hold
\* exactly the topics of the fact maps of the node's children, each once, with
\* the stringified value of the last child that holds the topic; so they hold
\* every topic a child's runner returned earlier in the run.
C9_ChildFacts ==
    last.op = "visit" =>
        LET p == last.node
            given == last.child_facts
            kids == nodes[p].children
        IN  /\ { given[i].topic : i \in 1..Len(given) } =
                   UNION { Topics(knowledge[kids[c]].facts) : c \in 1..Len(kids) }
            /\ \A i, j \in 1..Len(given) : i # j => given[i].topic # given[j].topic
            /\ \A i \in 1..Len(given) :
                   /\ given[i].value.type = "str"
                   /\ given[i].value.text =
                          dict_get(knowledge[LastHolder(p, given[i].topic)].facts,
                                   given[i].topic).value.text
            /\ \A e \in 1..Len(trace) :
                   (trace[e].ev = "run" /\ trace[e].node \in Range(kids)) =>
                       \A f \in 1..Len(trace[e].facts) :
                           \E i \in 1..Len(given) : given[i].topic = trace[e].facts[f]

\* the root's runner was given two topics, one of them held by both children
\* and as a number by the second, after both runners returned a fact in this
\* run
C9_Witness ==
    /\ last.op = "visit"
    /\ last.node = "root"
    /\ Len(last.child_facts) = 2
    /\ HasTopic(knowledge["a"].facts, <<"b">>)
    /\ HasTopic(knowledge["b"].facts, <<"b">>)
    /\ dict_get(knowledge["b"].facts, <<"b">>).value.type = "int"
    /\ \A n \in {"a", "b"} :
           \E e \in 1..Len(trace) :
               trace[e].ev = "run" /\ trace[e].node = n /\ trace[e].facts # <<>>

\* the messages logged in the run that is under way
MessageLog == IF frame.pc = "execute" THEN frame.message_log ELSE grove.message_log

\* the statements the node p accepted in the run, message by message
Accepted(p) ==
    { s \in UNION { Range(MessageLog[i].statements) : i \in 1..Len(MessageLog) } :
        \E i \in 1..Len(MessageLog) :
            /\ MessageLog[i].header.destination = p
            /\ s \in Range(MessageLog[i].statements) }

\* C10: when a child has been visited, its parent holds, for every topic of
\* a statement it accepted from its children in this run, the accepted
\* statement with the highest version for that topic, and there is only one
\* such statement.
C10_MaxVersionUnion ==
    (last.op = "visit" /\ nodes[last.node].parent # NoNode) =>
        LET p == nodes[last.node].parent
        IN  \A s \in Accepted(p) :
                /\ HasTopic(knowledge[p].facts, s.topic)
                /\ (\A o \in Accepted(p) : o.topic = s.topic => o.version <= s.version)
                       => dict_get(knowledge[p].facts, s.topic) = s

\* both children have propagated the same topic, and the root took the second
\* child's edited fact over the first child's because its version is higher
C10_Witness ==
    /\ last.op = "visit"
    /\ last.node = "b"
    /\ \E s, o \in Accepted("root") :
           /\ s.topic = o.topic
           /\ s.version < o.version
           /\ s.value = RunnerValue("a")
           /\ o.value = PyInt("7")
           /\ dict_get(knowledge["root"].facts, s.topic) = o

----------------------------------------------------------------------------
(* The propagation messages of a run *)

\* the levels of the run that is under way
RunLevels == IF frame.pc = "execute" THEN frame.levels ELSE grove.levels

\* the place of the node n in the order in which the run visits the nodes
RunPos(n) ==
    CHOOSE k \in 0..Cardinality(DOMAIN nodes) :
        \E l \in 1..Len(RunLevels) : \E i \in 1..Len(RunLevels[l]) :
            /\ RunLevels[l][i] = n
            /\ k = i + Cardinality({ m \in DOMAIN nodes :
                        \E l2 \in 1..(l - 1) : m \in Range(RunLevels[l2]) })

\* what the visit of n has its parent p accept: the facts n holds after its
\* runner returned that p subscribes to, that are newer than what p
\* acknowledged, and that p has no entry for or an older one
AcceptedInVisit(n, p) ==
    { f \in Range(knowledge'[n].facts) :
        /\ f.version > GetOr(knowledge[n].version_vectors, p, 0)
        /\ \E pat \in GetOr(knowledge[n].subscribers, p, {}) :
               topic_matches(pat, f.topic)
        /\ \/ ~HasTopic(knowledge[p].facts, f.topic)
           \/ f.version > dict_get(knowledge[p].facts, f.topic).version }

\* the visit of a node appends at most one message to the log, and one
\* message exactly when its parent accepted something
VisitLogsRight ==
    (last'.op = "visit") =>
        LET n == last'.node
            p == nodes[n].parent
            old == MessageLog
            new == MessageLog'
        IN  IF p = NoNode \/ AcceptedInVisit(n, p) = {}
            THEN new = old
            ELSE /\ Len(new) = Len(old) + 1
                 /\ SubSeq(new, 1, Len(old)) = old
                 /\ LET msg == new[Len(new)]
                    IN  /\ msg.header.source = n
                        /\ msg.header.destination = p
                        /\ msg.header.message_id = generate_message_id(n, counter)
                        /\ counter' = counter + 1
                        /\ Range(msg.statements) = AcceptedInVisit(n, p)
                        /\ Len(msg.statements) =
                               Cardinality(AcceptedInVisit(n, p))

\* the messages of the log come from distinct nodes, in the order of the run
LogInRunOrder ==
    \A i, j \in 1..Len(MessageLog) :
        i < j => RunPos(MessageLog[i].header.source)
                     < RunPos(MessageLog[j].header.source)

\* C11: in execute and step the visit of a non-root node appends a message to
\* the log exactly when its parent accepted a statement of it; the message
\* has the node as source, the parent as destination, an id the node's engine
\* generated, and the accepted statements and nothing else; the visit of the
\* root appends nothing; and the log is in the order the nodes were run.
C11_PropagationLog == [][VisitLogsRight]_vars /\ []LogInRunOrder

\* both children were visited and each one's message is in the log, the
\* second with a statement
C11_Witness ==
    /\ last.op = "visit"
    /\ last.node = "b"
    /\ Len(MessageLog) = 2
    /\ MessageLog[1].header.source = "a"
    /\ MessageLog[2].header.source = "b"
    /\ MessageLog[2].header.destination = "root"
    /\ MessageLog[2].statements # <<>>

----------------------------------------------------------------------------
(* A fresh engine that is only asserted into *)

AssertTopics == TopicSet \cup { <<"a">> }

\* how many calls of assert_fact there were
Calls == IF last.op = "init" THEN 0 ELSE last.calls

\* assert_fact, with the statement it returned
AssertCall(n, topics, values) ==
    \E topic \in topics, value \in values :
        LET k2 == assert_fact(knowledge[n], topic, value)
        IN  /\ Calls < MaxCalls
            /\ knowledge' = [knowledge EXCEPT ![n] = k2]
            /\ last' = [op |-> "assert_fact", node |-> n, topic |-> topic,
                        value |-> value, calls |-> Calls + 1,
                        ret |-> assert_fact_ret(k2, topic, value)]
            /\ UNCHANGED others

NextAssert == Quiet(AssertCall("root", AssertTopics, ValueSet))

SpecAssert == InitKnow /\ [][NextAssert]_vars

\* C12: in an engine that was fresh and has only been asserted into, the
\* local version is the number of calls; the k-th call returned the KNOW
\* statement of its topic and value with version k and left (value, k) as the
\* one entry of the topic; and no stored fact has a version above the local
\* version.
C12_AssertCounts ==
    LET k == knowledge["root"]
    IN  /\ k.local_version = Calls
        /\ \A i \in 1..Len(k.facts) : k.facts[i].version <= k.local_version
        /\ last.op = "assert_fact" =>
               /\ last.ret = [topic |-> last.topic, value |-> last.value,
                              version |-> Calls]
               /\ \E i \in 1..Len(k.facts) :
                      /\ k.facts[i] = [topic |-> last.topic, value |-> last.value,
                                       version |-> Calls]
                      /\ \A j \in 1..Len(k.facts) :
                             k.facts[j].topic = last.topic => j = i

\* the third call overwrote the entry of the first, with another value
C12_Witness ==
    /\ last.op = "assert_fact"
    /\ last.calls = 3
    /\ last.value = X
    /\ Len(knowledge["root"].facts) = 2
    /\ knowledge["root"].facts[1] = [topic |-> last.topic, value |-> X, version |-> 3]
    /\ knowledge["root"].facts[2].version = 2

----------------------------------------------------------------------------
(* One statement applied again *)

\* apply_incoming of a one-statement list; `again` tells that the call before
\* it, with nothing in between, was given the same statement, `before` is
\* the engine the call found and `prev_ret` what the call before it returned
ApplyOne(n, stmts) ==
    \E stmt \in stmts :
        LET res == apply_incoming(knowledge[n], <<stmt>>, "p")
            again == last.op = "apply_one" /\ last.stmt = stmt
        IN  /\ knowledge' = [knowledge EXCEPT ![n] = res.engine]
            /\ last' = [op |-> "apply_one", node |-> n, stmt |-> stmt,
                        ret |-> res.applied, before |-> knowledge[n],
                        again |-> again,
                        prev_ret |-> IF again THEN last.ret ELSE <<>>]
            /\ UNCHANGED others

\* Statements arrive one by one, some of them twice in a row, in an engine
\* that also asserts facts of its own.
NextTwice ==
    \/ Quiet(AssertFact("root", TopicSet, ValueSet))
    \/ Quiet(ApplyOne("root", StatementsOf(TopicSet, ValueSet)))

SpecTwice == InitKnow /\ [][NextTwice]_vars

\* C13: when apply_incoming is given the statement the call just before it
\* was given, it accepts nothing: it returns the empty list and the engine is
\* as the call found it.
C13_SecondApplyIsNoOp ==
    (last.op = "apply_one" /\ last.again) =>
        /\ last.ret = <<>>
        /\ knowledge[last.node] = last.before

\* a statement was accepted, and then applied once more
C13_Witness ==
    /\ last.op = "apply_one"
    /\ last.again
    /\ last.prev_ret = <<last.stmt>>
    /\ last.ret = <<>>
    /\ dict_get(knowledge["root"].facts, last.stmt.topic) = last.stmt

----------------------------------------------------------------------------
(* The subscribers and the version vector of one engine *)

\* the peers add_subscriber was ever called for
Ever == IF last.op = "init" THEN {} ELSE last.ever

\* one call that leaves the engines kn: the call, its peer and its argument
\* (a pattern or a version), the engine of "a" as the call found it, and
\* whether it was the first add_subscriber for the peer
SubsCall(kn, op, peer, arg) ==
    /\ knowledge' = kn
    /\ last' = [op |-> op, peer |-> peer, arg |-> arg, before |-> knowledge["a"],
                first |-> op = "add_subscriber" /\ peer \notin Ever,
                ever |-> IF op = "add_subscriber" THEN Ever \cup {peer} ELSE Ever]
    /\ UNCHANGED others

SubsAdd(peers, patterns) ==
    \E peer \in peers, pattern \in patterns :
        SubsCall([knowledge EXCEPT !["a"] = add_subscriber(@, peer, pattern)],
                 "add_subscriber", peer, pattern)

SubsRemove(peers, patterns) ==
    \E peer \in peers, pattern \in patterns :
        SubsCall([knowledge EXCEPT !["a"] = remove_subscriber(@, peer, pattern)],
                 "remove_subscriber", peer, pattern)

SubsAcknowledge(peers) ==
    \E peer \in peers, version \in 0..MaxVersion :
        SubsCall([knowledge EXCEPT !["a"] = acknowledge_sync(@, peer, version)],
                 "acknowledge_sync", peer, version)

SubsAssert(topics, values) ==
    \E topic \in topics, value \in values :
        /\ knowledge["a"].local_version < MaxVersion
        /\ SubsCall([knowledge EXCEPT !["a"] = assert_fact(@, topic, value)],
                    "assert_fact", "", topic)

SubsPropagate ==
    SubsCall(propagate_up(nodes, knowledge, "a").knowledge, "propagate_up",
             "root", <<>>)

\* The child of a pair: its parent and a peer outside the tree subscribe and
\* unsubscribe, syncs are acknowledged, facts are asserted and propagated up.
NextSubs ==
    \/ Quiet(SubsAdd({"root", "p"}, PatternSet))
    \/ Quiet(SubsRemove({"root", "p"}, PatternSet))
    \/ Quiet(SubsAcknowledge({"root", "p"}))
    \/ Quiet(SubsAssert(TopicSet, {X}))
    \/ Quiet(SubsPropagate)

SpecSubs == InitTree /\ [][NextSubs]_vars

\* every peer of the subscriber map has a pattern and a version-vector entry
SubscribersHaveEntries ==
    LET k == knowledge["a"]
    IN  \A peer \in DOMAIN k.subscribers :
            /\ k.subscribers[peer] # {}
            /\ peer \in DOMAIN k.version_vectors

\* remove_subscriber of the one pattern a peer has left takes the peer out of
\* the subscriber map
LastPatternRemovesPeer ==
    (/\ last.op = "remove_subscriber"
     /\ last.peer \in DOMAIN last.before.subscribers
     /\ last.before.subscribers[last.peer] = {last.arg}) =>
        last.peer \notin DOMAIN knowledge["a"].subscribers

\* no call lowers or drops an entry of the version vector, and
\* acknowledge_sync with a lower version changes nothing
EntriesNeverDecrease ==
    LET k == knowledge["a"]
    IN  /\ last.op # "init" =>
               \A peer \in DOMAIN last.before.version_vectors :
                   /\ peer \in DOMAIN k.version_vectors
                   /\ k.version_vectors[peer] >= last.before.version_vectors[peer]
        /\ (/\ last.op = "acknowledge_sync"
            /\ last.peer \in DOMAIN last.before.version_vectors
            /\ last.arg < last.before.version_vectors[last.peer]) =>
               k = last.before

\* the first add_subscriber for a peer leaves the peer's entry at 0
FirstAddGivesZero ==
    (last.op = "add_subscriber" /\ last.first) =>
        knowledge["a"].version_vectors[last.peer] = 0

\* add_subscriber gives a peer without an entry the entry 0, and leaves an
\* entry that is there as it is
AddKeepsOrGivesZero ==
    last.op = "add_subscriber" =>
        knowledge["a"].version_vectors[last.peer] =
            GetOr(last.before.version_vectors, last.peer, 0)

\* C14 as stated: every subscribed peer has a version-vector entry, which is
\* 0 when the peer is first added; removing the last pattern of a peer
\* removes the peer; and no entry ever decreases.
C14_FirstAddZero ==
    /\ SubscribersHaveEntries
    /\ FirstAddGivesZero
    /\ LastPatternRemovesPeer
    /\ EntriesNeverDecrease

\* C14, amended: every subscribed peer has a version-vector entry, which
\* add_subscriber sets to 0 only when the peer has none (an entry that an
\* earlier acknowledge_sync made is kept); removing the last pattern of a peer
\* removes the peer; and no entry ever decreases.
C14_Subscribers ==
    /\ SubscribersHaveEntries
    /\ AddKeepsOrGivesZero
    /\ LastPatternRemovesPeer
    /\ EntriesNeverDecrease

\* a sync was acknowledged for a peer that had not subscribed yet, and the
\* peer's first add_subscriber kept the acknowledged version
C14_Witness ==
    /\ last.op = "add_subscriber"
    /\ last.first
    /\ last.peer = "p"
    /\ last.before.version_vectors = Put(EmptyMap, "p", 2)
    /\ knowledge["a"].version_vectors["p"] = 2
    /\ "p" \in DOMAIN knowledge["a"].subscribers

----------------------------------------------------------------------------
(* Calls an InteractiveGrove refuses *)

\* A slip of checkpoint: the manager is not looked at.
Checkpoint_unguarded == Save

\* InteractiveGrove.checkpoint, with or without a CheckpointManager
Checkpoint ==
    IF ~grove.checkpoint_mgr
    THEN /\ frame = Idle
         /\ last' = [op |-> "checkpoint", raised |-> "RuntimeError"]
         /\ UNCHANGED <<nodes, root, knowledge, correlation, counter, files,
                        grove, frame, trace, saved>>
    ELSE Save

\* InteractiveGrove.rollback, with or without a CheckpointManager
RollbackCall(checkpoint_id) ==
    IF ~grove.checkpoint_mgr
    THEN /\ frame = Idle
         /\ last' = [op |-> "rollback", id |-> checkpoint_id,
                     raised |-> "RuntimeError"]
         /\ UNCHANGED <<nodes, root, knowledge, correlation, counter, files,
                        grove, frame, trace, saved>>
    ELSE Rollback(checkpoint_id)

\* a parent and a child, in a grove built with or without a manager
InitRefuse ==
    /\ nodes = PairTree.nodes
    /\ root = PairTree.root
    /\ knowledge = PairTree.knowledge
    /\ correlation = PairTree.correlation
    /\ counter = 1
    /\ files = <<>>
    /\ \E mgr \in BOOLEAN : grove = [InteractiveGrove EXCEPT !.checkpoint_mgr = mgr]
    /\ frame = Idle
    /\ trace = <<>>
    /\ asserted = [n \in DOMAIN PairTree.nodes |-> {}]
    /\ minted = {}
    /\ saved = EmptyMap
    /\ folds = EmptyMap
    /\ heap = EmptyMap
    /\ last = [op |-> "init"]

\* One interactive run, with step, checkpoint and rollback called at every
\* point of it: before setup, between the levels and after the last level.
NextRefuse ==
    \/ Quiet(Fresh /\ Setup)
    \/ Quiet(StepEnter)
    \/ Quiet(StepVisit)
    \/ Quiet(StepReturn)
    \/ Quiet(Checkpoint)
    \/ \E id \in 1..(MaxCheckpoints + 1) : Quiet(RollbackCall(id))

SpecRefuse == InitRefuse /\ [][NextRefuse]_vars

\* what a refused call leaves alone
Untouched ==
    UNCHANGED <<nodes, root, knowledge, correlation, counter, files, grove, frame>>

\* step raises exactly when setup was not called or every level was
\* processed, and then changes nothing
StepRefused ==
    /\ (last'.op = "step" /\ last'.raised = "RuntimeError") =>
           /\ ~grove.setup_done \/ grove.current_level >= Len(grove.levels)
           /\ Untouched
    /\ (frame = Idle /\ frame'.pc = "step") =>
           grove.setup_done /\ grove.current_level < Len(grove.levels)

\* without a manager checkpoint and rollback raise and change nothing, and
\* with one they do not raise this error
NoManagerRefused ==
    /\ (last'.op \in {"checkpoint", "rollback"} /\ last'.raised = "RuntimeError") =>
           /\ ~grove.checkpoint_mgr
           /\ Untouched
    /\ ~grove.checkpoint_mgr =>
           /\ last'.op # "save"
           /\ last'.op = "rollback" => last'.raised = "RuntimeError"

\* C15: step before setup or after the last level raises RuntimeError and
\* leaves the current level, the agents-run count, the message log and every
\* node's knowledge as they were; checkpoint and rollback of a grove without
\* a CheckpointManager raise RuntimeError and change nothing either.
C15_RefusedCalls == [][StepRefused /\ NoManagerRefused]_vars

\* in a grove without a manager both levels were processed, and the step
\* called after that raised
C15_Witness ==
    /\ last.op = "step"
    /\ last.raised = "RuntimeError"
    /\ ~grove.checkpoint_mgr
    /\ grove.setup_done
    /\ grove.current_level = 2
    /\ grove.agents_run = 2

----------------------------------------------------------------------------
(* complete and result of an InteractiveGrove *)

\* InteractiveGrove.result
result(g, kn, r) ==
    [facts |-> kn[r].facts, messages |-> g.message_log,
     agents_run |-> g.agents_run, levels_processed |-> g.current_level]

\* complete, up to its loop
CompleteEnter ==
    /\ frame = Idle
    /\ IF ~grove.setup_done
       THEN /\ last' = [op |-> "complete", raised |-> "RuntimeError"]
            /\ UNCHANGED frame
       ELSE /\ frame' = [pc |-> "complete", in_step |-> FALSE,
                         from_level |-> grove.current_level]
            /\ last' = [op |-> "enter"]
    /\ UNCHANGED <<nodes, root, knowledge, correlation, counter, files, grove,
                   trace, saved>>

\* the loop of complete calls step: the two checks of step pass
CompleteStepEnter ==
    /\ frame.pc = "complete"
    /\ ~frame.in_step
    /\ grove.current_level < Len(grove.levels)
    /\ frame' = [pc |-> "complete", in_step |-> TRUE,
                 from_level |-> frame.from_level,
                 level |-> grove.levels[grove.current_level + 1],
                 i |-> 1, agents_run_ids |-> <<>>]
    /\ last' = [op |-> "enter"]
    /\ UNCHANGED <<nodes, root, knowledge, correlation, counter, files, grove,
                   trace, saved>>

\* one turn of the loop of the step that complete called
CompleteVisit ==
    /\ frame.pc = "complete"
    /\ frame.in_step
    /\ frame.i <= Len(frame.level)
    /\ LET n == frame.level[frame.i]
       IN  \E topics \in RunnerFacts(n, knowledge[n]) :
               LET v == visit(nodes, knowledge, correlation, counter, n, topics)
               IN  /\ knowledge' = v.knowledge
                   /\ correlation' = v.correlation
                   /\ counter' = v.counter
                   /\ grove' = [grove EXCEPT !.agents_run = @ + 1,
                                             !.message_log = @ \o v.messages]
                   /\ frame' = [frame EXCEPT !.i = @ + 1,
                                             !.agents_run_ids = Append(@, n)]
                   /\ trace' = trace \o v.events
                   /\ last' = [op |-> "visit", node |-> n,
                               child_facts |-> v.child_facts]
    /\ UNCHANGED <<nodes, root, files, saved>>

\* the end of the step that complete called
CompleteStepReturn ==
    /\ frame.pc = "complete"
    /\ frame.in_step
    /\ frame.i > Len(frame.level)
    /\ grove' = [grove EXCEPT !.current_level = @ + 1]
    /\ frame' = [pc |-> "complete", in_step |-> FALSE,
                 from_level |-> frame.from_level]
    /\ last' = [op |-> "step", raised |-> "",
                level |-> grove.current_level,
                agents_run |-> frame.agents_run_ids,
                is_complete |-> grove.current_level + 1 >= Len(grove.levels),
                resumed |-> 0]
    /\ UNCHANGED <<nodes, root, knowledge, correlation, counter, files, trace,
                   saved>>

\* the end of complete: the loop is left and result() is returned
CompleteReturn ==
    /\ frame.pc = "complete"
    /\ ~frame.in_step
    /\ ~(grove.current_level < Len(grove.levels))
    /\ frame' = Idle
    /\ last' = [op |-> "complete", raised |-> "",
                from_level |-> frame.from_level,
                ret |-> result(grove, knowledge, root)]
    /\ UNCHANGED <<nodes, root, knowledge, correlation, counter, files, grove,
                   trace, saved>>

\* result(), called between the other calls
Result ==
    /\ frame = Idle
    /\ last' = [op |-> "result", raised |-> "",
                ret |-> result(grove, knowledge, root)]
    /\ UNCHANGED <<nodes, root, knowledge, correlation, counter, files, grove,
                   frame, trace, saved>>

\* One interactive run on a tree of three levels: after setup the levels are
\* processed by step calls, by complete, or by some steps and then complete.
NextComplete ==
    \/ Quiet(Fresh /\ Setup)
    \/ Quiet(StepEnter)
    \/ Quiet(StepVisit)
    \/ Quiet(StepReturn)
    \/ Quiet(CompleteEnter)
    \/ Quiet(CompleteStepEnter)
    \/ Quiet(CompleteVisit)
    \/ Quiet(CompleteStepReturn)
    \/ Quiet(CompleteReturn)
    \/ Quiet(Result)

SpecComplete == InitOrder /\ [][NextComplete]_vars

\* the depth of the deepest node
MaxDepth == MaxOf({ Depth(n) : n \in DOMAIN nodes })

\* the nodes of the k-th level of the bottom-up order, counted from 0
LevelNodes(k) == { n \in DOMAIN nodes : Depth(n) = MaxDepth - k }

\* how often the runner was called for the node n in the run
RunCount(n) ==
    Cardinality({ i \in 1..Len(trace) : trace[i].ev = "run" /\ trace[i].node = n })

\* a step that returned processed the nodes of one level, the one after the
\* levels processed before it, each node once, and told whether it was the last
StepIsOneLevel ==
    (last.op = "step" /\ last.raised = "") =>
        /\ Range(last.agents_run) = LevelNodes(last.level)
        /\ Len(last.agents_run) = Cardinality(LevelNodes(last.level))
        /\ grove.current_level = last.level + 1
        /\ last.is_complete <=> (last.level = MaxDepth)

\* the runner was called once for every node of the levels below the current
\* one, not at all for the nodes of the levels above it, and for the nodes of
\* the current level only by the step that is under way, at most once
RunnerOncePerNode ==
    /\ grove.setup_done => Len(grove.levels) = MaxDepth + 1
    /\ grove.agents_run =
           Cardinality({ i \in 1..Len(trace) : trace[i].ev = "run" })
    /\ \A n \in DOMAIN nodes :
           LET k == MaxDepth - Depth(n)
           IN  IF k < grove.current_level THEN RunCount(n) = 1
               ELSE IF k > grove.current_level THEN RunCount(n) = 0
               ELSE /\ RunCount(n) <= 1
                    /\ frame = Idle => RunCount(n) = 0

\* complete returns when every level is processed, and the result of a
\* completed run counts every node and every level
CompletionCounts ==
    /\ (last.op = "complete" /\ last.raised = "") =>
           grove.current_level = MaxDepth + 1
    /\ (/\ last.op \in {"complete", "result"}
        /\ last.raised = ""
        /\ grove.setup_done
        /\ grove.current_level >= Len(grove.levels)) =>
           /\ last.ret.agents_run = Cardinality(DOMAIN nodes)
           /\ last.ret.levels_processed = MaxDepth + 1
           /\ \A n \in DOMAIN nodes : RunCount(n) = 1

\* C16: after setup every step processes the nodes of exactly one level, the
\* next one bottom-up, advances the current level by one and reports
\* is_complete exactly for the last level; through steps and complete calls
\* every node's runner is called exactly once; and on completion agents_run
\* is the number of nodes and levels_processed the number of levels.
C16_StepsAndComplete ==
    /\ StepIsOneLevel
    /\ RunnerOncePerNode
    /\ CompletionCounts

\* the deepest level was processed by a step, and complete did the other two
C16_Witness ==
    /\ last.op = "complete"
    /\ last.raised = ""
    /\ last.from_level = 1
    /\ last.ret.agents_run = 4
    /\ last.ret.levels_processed = 3
    /\ grove.levels = << <<"c">>, <<"a", "b">>, <<"root">> >>

----------------------------------------------------------------------------
(* Building a tree *)

NodeIds == { "root", "a", "b", "c" }

\* the tree the variables hold
Tree ==
    [nodes |-> nodes, root |-> root, knowledge |-> knowledge,
     correlation |-> correlation]

\* a call that leaves the tree t2
TreeCall(t2, op, parent_id, agent_id, raised) ==
    /\ nodes' = t2.nodes
    /\ root' = t2.root
    /\ knowledge' = t2.knowledge
    /\ correlation' = t2.correlation
    /\ last' = [op |-> op, parent |-> parent_id, id |-> agent_id,
                raised |-> raised, before |-> Tree]
    /\ UNCHANGED <<counter, files, grove, frame, trace, saved>>

AddRoot(ids) ==
    \E agent_id \in ids :
        TreeCall(add_root(Tree, agent_id), "add_root", NoNode, agent_id,
                 add_root_raises(Tree, agent_id))

AddChild(ids) ==
    \E parent_id \in ids, agent_id \in ids :
        TreeCall(add_child(Tree, parent_id, agent_id), "add_child", parent_id,
                 agent_id, add_child_raises(Tree, parent_id, agent_id))

InitBuild ==
    /\ InitWith(TreeEngine)
    /\ last = [op |-> "init"]

\* Trees of up to four nodes are built, call by call; every id is tried as a
\* root, as a parent and as a child at every point.
NextBuild ==
    \/ Quiet(AddRoot(NodeIds))
    \/ Quiet(AddChild(NodeIds))

SpecBuild == InitBuild /\ [][NextBuild]_vars

RECURSIVE ReachesRoot(_, _)
\* the parent links lead from n to the root in at most k steps
ReachesRoot(n, k) ==
    \/ n = root
    \/ /\ k > 0
       /\ nodes[n].parent \in DOMAIN nodes
       /\ ReachesRoot(nodes[n].parent, k - 1)

\* how often the id n is among the children of p
TimesChildOf(n, p) ==
    Cardinality({ i \in 1..Len(nodes[p].children) : nodes[p].children[i] = n })

\* one root at most, every other node once among the children of its parent
\* and of no other node, and every node linked to the root
WellFormedTree ==
    /\ root = NoNode <=> DOMAIN nodes = {}
    /\ root # NoNode => root \in DOMAIN nodes
    /\ \A n \in DOMAIN nodes :
           /\ nodes[n].parent = NoNode <=> n = root
           /\ n # root => nodes[n].parent \in DOMAIN nodes
           /\ \A p \in DOMAIN nodes :
                  TimesChildOf(n, p) = IF nodes[n].parent = p THEN 1 ELSE 0
           /\ Range(nodes[n].children) \subseteq DOMAIN nodes
           /\ ReachesRoot(n, Cardinality(DOMAIN nodes))
    /\ DOMAIN knowledge = DOMAIN nodes
    /\ DOMAIN correlation = DOMAIN nodes

\* add_root fails exactly when there is a root, add_child exactly when the
\* parent is unknown or the id is taken, and a call that fails changes nothing
FailedCallsChangeNothing ==
    /\ last.op = "add_root" =>
           (last.raised # "" <=> last.before.root # NoNode)
    /\ last.op = "add_child" =>
           (last.raised # "" <=>
               \/ last.parent \notin DOMAIN last.before.nodes
               \/ last.id \in DOMAIN last.before.nodes)
    /\ (last.op \in {"add_root", "add_child"} /\ last.raised # "") =>
           Tree = last.before
    /\ (last.op \in {"add_root", "add_child"} /\ last.raised = "") =>
           /\ DOMAIN nodes = DOMAIN last.before.nodes \cup {last.id}
           /\ last.id \notin DOMAIN last.before.nodes
           /\ nodes[last.id].parent = last.parent

\* C17: after any calls of add_root and add_child, failed ones among them,
\* the tree has at most one root, every id names one node, every other node
\* has a parent in the tree that lists it exactly once among its children,
\* and the links form one tree without cycles under the root; a call that
\* fails (a second root, an unknown parent, an id that is taken) leaves the
\* tree as it was.
C17_TreeShape == WellFormedTree /\ FailedCallsChangeNothing

\* a tree of three levels is complete, and add_child with the id of a leaf
\* under another parent was refused
C17_Witness ==
    /\ last.op = "add_child"
    /\ last.raised = "ValueError"
    /\ Cardinality(DOMAIN nodes) = 4
    /\ last.parent # nodes[last.id].parent
    /\ last.parent \in DOMAIN nodes
    /\ \E n \in DOMAIN nodes : nodes[n].parent # NoNode /\ nodes[n].parent # root

----------------------------------------------------------------------------
(* The message ids of a process *)

\* the ids a step generates: the one generate_message_id returned to its
\* caller, or the one of the message a visit appended to the log
NewIds ==
    IF last'.op = "generate_message_id" THEN {last'.ret}
    ELSE IF last'.op = "visit" /\ Len(MessageLog') > Len(MessageLog)
    THEN {MessageLog'[Len(MessageLog')].header.message_id}
    ELSE {}

\* a step that keeps the history of generated ids
Minting(A) ==
    /\ A
    /\ minted' = minted \cup NewIds
    /\ UNCHANGED <<asserted, folds, heap>>

\* CorrelationEngine.generate_message_id, called on the engine of a node
GenerateMessageId(n) ==
    /\ frame = Idle
    /\ counter <= MaxMessages
    /\ counter' = counter + 1
    /\ last' = [op |-> "generate_message_id", node |-> n,
                ret |-> generate_message_id(n, counter), after |-> last.op]
    /\ UNCHANGED <<nodes, root, knowledge, correlation, files, grove, frame,
                   trace, saved>>

\* One interactive run of a parent and a child with checkpoints and
\* rollbacks to them; between the steps ids are asked of the child's engine,
\* and the engines are cleared.
NextMint ==
    \/ Minting(Fresh /\ Setup)
    \/ Minting(StepEnter)
    \/ Minting(StepVisit)
    \/ Minting(StepReturn)
    \/ Minting(GenerateMessageId("a"))
    \/ \E n \in {"a", "root"} : Minting(frame = Idle /\ CorrelationClear(n))
    \/ Minting(grove.setup_done /\ Save)
    \/ \E id \in DOMAIN files : Minting(Rollback(id))

SpecMint == InitRollback /\ [][NextMint]_vars

\* the ids of the messages of the log
LogIds == { MessageLog[i].header.message_id : i \in 1..Len(MessageLog) }

\* an id that is generated is not an id generated before and not an id of
\* the message log, and its counter is above the counter of every id its
\* engine generated before
MintsFresh ==
    \A id \in NewIds :
        /\ id \notin minted
        /\ id \notin LogIds
        /\ \A old \in minted : old[1] = id[1] => old[2] < id[2]

\* C18: every id a correlation engine generates differs from the ids it
\* generated before and has a higher counter, also after clear() and after
\* the engine's state was restored from a checkpoint; an id generated after a
\* rollback is not among the ids of the restored message log.
C18_FreshIds == [][MintsFresh]_vars

\* the child's message was logged and checkpointed, the run was rolled back,
\* and the id generated right after the rollback is a new one
C18_Witness ==
    /\ last.op = "generate_message_id"
    /\ last.after = "rollback"
    /\ Len(grove.message_log) = 1
    /\ grove.message_log[1].header.message_id[1] = "a"
    /\ grove.message_log[1].header.message_id \in minted
    /\ last.ret \in minted
    /\ last.ret # grove.message_log[1].header.message_id
    /\ Cardinality(minted) >= 2

----------------------------------------------------------------------------
(* sanitizer.py.  A raw input is given as what SAGMessageParser.parse makes  *)
(* of it: the exception it raises, or the message.  A header keeps source    *)
(* and destination ("" for one that is not given).  An action statement      *)
(* comes with the error codes SchemaValidator.validate and                   *)
(* GuardrailValidator.validate give it ("" when it passes); any other        *)
(* statement has the kind "know".  An error keeps error_type and code.       *)

ValidationError(error_type, code) == [error_type |-> error_type, code |-> code]

SanitizeResult(valid, message, errors) ==
    [valid |-> valid, message |-> message, errors |-> errors]

_validate_routing(message, agents) ==
    (IF message.header.source # "" /\ message.header.source \notin agents
     THEN <<ValidationError("ROUTING", "UNKNOWN_SOURCE")>> ELSE <<>>)
    \o (IF /\ message.header.destination # ""
           /\ message.header.destination \notin agents
        THEN <<ValidationError("ROUTING", "UNKNOWN_DESTINATION")>> ELSE <<>>)

RECURSIVE _validate_schemas(_)
_validate_schemas(statements) ==
    IF statements = <<>> THEN <<>>
    ELSE LET stmt == Head(statements)
         IN  (IF stmt.kind = "action" /\ stmt.schema_code # ""
              THEN <<ValidationError("SCHEMA", stmt.schema_code)>> ELSE <<>>)
             \o _validate_schemas(Tail(statements))

RECURSIVE _validate_guardrails(_)
_validate_guardrails(statements) ==
    IF statements = <<>> THEN <<>>
    ELSE LET stmt == Head(statements)
         IN  (IF stmt.kind = "action" /\ stmt.guardrail_code # ""
              THEN <<ValidationError("GUARDRAIL", stmt.guardrail_code)>> ELSE <<>>)
             \o _validate_guardrails(Tail(statements))

\* A slip of sanitize: strict mode does not stop at a layer with errors.
sanitize_late(parsed, agents, strict) ==
    IF parsed.raised # ""
    THEN SanitizeResult(FALSE, None, <<ValidationError("PARSE", "PARSE_ERROR")>>)
    ELSE LET message == parsed.message
             errors == _validate_routing(message, agents)
                           \o _validate_schemas(message.statements)
                           \o _validate_guardrails(message.statements)
         IN  SanitizeResult(~(strict /\ errors # <<>>), message, errors)

\* A slip of sanitize: the mode is not looked at.
sanitize_strict(parsed, agents, strict) ==
    IF parsed.raised # ""
    THEN SanitizeResult(FALSE, None, <<ValidationError("PARSE", "PARSE_ERROR")>>)
    ELSE LET message == parsed.message
             routing_errors == _validate_routing(message, agents)
             schema_errors == _validate_schemas(message.statements)
             guardrail_errors == _validate_guardrails(message.statements)
         IN  IF routing_errors # <<>>
             THEN SanitizeResult(FALSE, message, routing_errors)
             ELSE IF schema_errors # <<>>
             THEN SanitizeResult(FALSE, message, schema_errors)
             ELSE IF guardrail_errors # <<>>
             THEN SanitizeResult(FALSE, message, guardrail_errors)
             ELSE SanitizeResult(TRUE, message, <<>>)

\* SAGSanitizer.sanitize
sanitize(parsed, agents, strict) ==
    IF parsed.raised # ""
    THEN SanitizeResult(FALSE, None, <<ValidationError("PARSE", "PARSE_ERROR")>>)
    ELSE LET message == parsed.message
             routing_errors == _validate_routing(message, agents)
             errors2 == routing_errors
             schema_errors == _validate_schemas(message.statements)
             errors3 == errors2 \o schema_errors
             guardrail_errors == _validate_guardrails(message.statements)
             errors4 == errors3 \o guardrail_errors
         IN  IF strict /\ routing_errors # <<>>
             THEN SanitizeResult(FALSE, message, errors2)
             ELSE IF strict /\ schema_errors # <<>>
             THEN SanitizeResult(FALSE, message, errors3)
             ELSE IF strict /\ guardrail_errors # <<>>
             THEN SanitizeResult(FALSE, message, errors4)
             ELSE IF errors4 # <<>> /\ strict
             THEN SanitizeResult(FALSE, message, errors4)
             ELSE SanitizeResult(TRUE, message, errors4)

\* the registry of the sanitizer: two known agents
AgentSet == { "svc1", "svc2" }

\* what a header names as source or destination: a known agent, an unknown
\* one, or nothing
HeaderIds == { "svc1", "intruder", "" }

\* the statements of the inputs: actions that pass or fail each validator,
\* and a KNOW statement
StatementSet ==
    { [kind |-> "action", schema_code |-> sc, guardrail_code |-> gc] :
        sc \in {"", "TYPE_MISMATCH"}, gc \in {"", "PRECONDITION_FAILED"} }
    \cup { [kind |-> "know", schema_code |-> "", guardrail_code |-> ""] }

\* the inputs: a text that does not parse, and the texts of every message
ParsedSet ==
    { [raised |-> "SAGParseException"] }
    \cup { [raised |-> "",
            message |-> [header |-> [source |-> src, destination |-> dst],
                         statements |-> stmts]] :
            src \in HeaderIds, dst \in HeaderIds,
            stmts \in ListsUpTo(StatementSet, MaxStmts) }

\* the inputs are drawn by Init; the one step applies sanitize to them
Sanitize ==
    /\ last.op = "input"
    /\ last' = [op |-> "sanitize", parsed |-> last.parsed, strict |-> last.strict,
                ret |-> sanitize(last.parsed, AgentSet, last.strict)]
    /\ UNCHANGED knowledge
    /\ UNCHANGED others

InitSanitize ==
    /\ InitWith(TreeEngine)
    /\ \E parsed \in ParsedSet, strict \in BOOLEAN :
           last = [op |-> "input", parsed |-> parsed, strict |-> strict]

NextSanitize == Quiet(Sanitize)

SpecSanitize == InitSanitize /\ [][NextSanitize]_vars

\* the errors of the kind k, in the order sanitize returned them
ErrorsOfKind(k) ==
    LET IsKind(e) == e.error_type = k
    IN  SelectSeq(last.ret.errors, IsKind)

\* what each layer after the parse finds in the message of the input
LayerErrors ==
    LET m == last.parsed.message
    IN  << _validate_routing(m, AgentSet), _validate_schemas(m.statements),
           _validate_guardrails(m.statements) >>

LayerKinds == << "ROUTING", "SCHEMA", "GUARDRAIL" >>

\* the one PARSE error of a text that does not parse
ParseFailure ==
    /\ ~last.ret.valid
    /\ last.ret.message = None
    /\ Len(last.ret.errors) = 1
    /\ last.ret.errors[1].error_type = "PARSE"

\* C19: in strict mode sanitize returns with the errors of the first layer,
\* in the order parse, routing, schema, guardrail, that finds any: the result
\* is invalid and holds that layer's errors and no others; and the result is
\* valid exactly when no layer finds an error.
C19_StrictFirstLayer ==
    (last.op = "sanitize" /\ last.strict) =>
        IF last.parsed.raised # "" THEN ParseFailure
        ELSE LET failing == { i \in 1..3 : LayerErrors[i] # <<>> }
             IN  /\ last.ret.valid <=> failing = {}
                 /\ failing = {} => last.ret.errors = <<>>
                 /\ failing # {} =>
                        /\ last.ret.errors = LayerErrors[MinOf(failing)]
                        /\ \A e \in Range(last.ret.errors) :
                               e.error_type = LayerKinds[MinOf(failing)]

\* a message from a known agent has an action that fails the schema and the
\* guardrail: strict mode reports the schema error alone
C19_Witness ==
    /\ last.op = "sanitize"
    /\ last.strict
    /\ last.parsed.raised = ""
    /\ LayerErrors[1] = <<>>
    /\ LayerErrors[2] # <<>>
    /\ LayerErrors[3] # <<>>
    /\ ~last.ret.valid
    /\ last.ret.errors = <<ValidationError("SCHEMA", "TYPE_MISMATCH")>>

\* C20: in permissive mode a text that parses gives a valid result with the
\* message and the errors of the routing, schema and guardrail layers, layer
\* by layer; a text that does not parse gives, in both modes, an invalid
\* result with one PARSE error and no message.
C20_PermissiveAllLayers ==
    last.op = "sanitize" =>
        /\ last.parsed.raised # "" => ParseFailure
        /\ (last.parsed.raised = "" /\ ~last.strict) =>
               /\ last.ret.valid
               /\ last.ret.message = last.parsed.message
               /\ last.ret.errors =
                      LayerErrors[1] \o LayerErrors[2] \o LayerErrors[3]
               /\ \A i \in 1..3 : ErrorsOfKind(LayerKinds[i]) = LayerErrors[i]

\* a message with an unknown source and an action that fails the schema and
\* the guardrail: permissive mode reports all three and calls it valid
C20_Witness ==
    /\ last.op = "sanitize"
    /\ ~last.strict
    /\ last.parsed.raised = ""
    /\ last.ret.valid
    /\ last.ret.errors =
           << ValidationError("ROUTING", "UNKNOWN_SOURCE"),
              ValidationError("SCHEMA", "TYPE_MISMATCH"),
              ValidationError("GUARDRAIL", "PRECONDITION_FAILED") >>

----------------------------------------------------------------------------
(* schema.py.  A value of an action is its Python type, its text (str) and  *)
(* its number (int, float, bool); None has the type "NoneType".  A regular  *)
(* expression is the set of the texts it matches in full.  An optional       *)
(* field of a spec is a set: empty for None, or else holding the value.      *)
(* schema.named_args and action.named_args are dicts: sequences of entries   *)
(* in insertion order.                                                       *)

MaxArgs == 2          \* specs in one schema, and arguments in one action

Value(type, text, num) == [type |-> type, text |-> text, num |-> num]

NoneValue == Value("NoneType", "", 0)

\* Python's ==: numbers compare by value whatever their type
py_eq(v, w) ==
    IF v.type \in {"int", "float", "bool"} /\ w.type \in {"int", "float", "bool"}
    THEN v.num = w.num
    ELSE v = w

ArgumentSpec(name, type, required, allowed_values, pattern, min_value, max_value) ==
    [name |-> name, type |-> type, required |-> required,
     allowed_values |-> allowed_values, pattern |-> pattern,
     min_value |-> min_value, max_value |-> max_value]

VerbSchema(positional_args, named_args, allow_extra_args) ==
    [positional_args |-> positional_args, named_args |-> named_args,
     allow_extra_args |-> allow_extra_args]

SchemaValidationResult(valid, error_code) ==
    [valid |-> valid, error_code |-> error_code]

_is_type_compatible(value, expected_type) ==
    IF value.type = "NoneType" THEN TRUE
    ELSE IF expected_type = "ANY" THEN TRUE
    ELSE IF expected_type = "STRING" THEN value.type = "str"
    ELSE IF expected_type = "INTEGER" THEN value.type \in {"int", "bool"} /\ value.type # "bool"
    ELSE IF expected_type = "FLOAT" THEN value.type = "float"
    ELSE IF expected_type = "BOOLEAN" THEN value.type = "bool"
    ELSE IF expected_type = "LIST" THEN value.type = "list"
    ELSE IF expected_type = "OBJECT" THEN value.type = "dict"
    ELSE FALSE

\* the error code of the first constraint of spec that value violates, or None
_validate_value_constraints(value, spec) ==
    IF value.type = "NoneType" THEN None
    ELSE IF \E allowed \in spec.allowed_values :
                ~(\E a \in allowed : py_eq(value, a))
    THEN "VALUE_NOT_ALLOWED"
    ELSE IF \E matched \in spec.pattern :
                value.type = "str" /\ value.text \notin matched
    THEN "PATTERN_MISMATCH"
    ELSE IF \E min_value \in spec.min_value :
                /\ value.type \in {"int", "float", "bool"} /\ value.type # "bool"
                /\ value.num < min_value
    THEN "VALUE_OUT_OF_RANGE"
    ELSE IF \E max_value \in spec.max_value :
                /\ value.type \in {"int", "float", "bool"} /\ value.type # "bool"
                /\ value.num > max_value
    THEN "VALUE_OUT_OF_RANGE"
    ELSE None

\* the type check and the constraint check of one present value
check_value(value, spec) ==
    IF ~_is_type_compatible(value, spec.type) THEN "TYPE_MISMATCH"
    ELSE _validate_value_constraints(value, spec)

\* key in d, and d[key], of a dict d
HasKey(d, key) == \E i \in 1..Len(d) : d[i].key = key

Lookup(d, key) == d[CHOOSE i \in 1..Len(d) : d[i].key = key].value

\* for i, spec in enumerate(positional_specs), from the index i (1-based) on
RECURSIVE validate_positional(_, _, _)
validate_positional(args, positional_specs, i) ==
    IF i > Len(positional_specs) THEN None
    ELSE LET spec == positional_specs[i]
             code == IF i > Len(args)
                     THEN (IF spec.required THEN "MISSING_ARG" ELSE None)
                     ELSE check_value(args[i], spec)
         IN  IF code # None THEN code
             ELSE validate_positional(args, positional_specs, i + 1)

\* for key in named_args, from the i-th key on
RECURSIVE validate_keys(_, _, _)
validate_keys(named_args, schema, i) ==
    IF i > Len(named_args) THEN None
    ELSE IF /\ ~HasKey(schema.named_args, named_args[i].key)
            /\ ~schema.allow_extra_args
    THEN "INVALID_ARGS"
    ELSE validate_keys(named_args, schema, i + 1)

\* for key, spec in named_specs.items(), from the i-th entry on
RECURSIVE validate_named(_, _, _)
validate_named(named_args, named_specs, i) ==
    IF i > Len(named_specs) THEN None
    ELSE LET key == named_specs[i].key
             spec == named_specs[i].value
             code == IF ~HasKey(named_args, key)
                     THEN (IF spec.required THEN "MISSING_ARG" ELSE None)
                     ELSE check_value(Lookup(named_args, key), spec)
         IN  IF code # None THEN code
             ELSE validate_named(named_args, named_specs, i + 1)

\* SchemaValidator.validate, for an action whose verb has the schema
validate(schema, action) ==
    LET positional == validate_positional(action.args, schema.positional_args, 1)
        keys == validate_keys(action.named_args, schema, 1)
        named == validate_named(action.named_args, schema.named_args, 1)
    IN  IF positional # None THEN SchemaValidationResult(FALSE, positional)
        ELSE IF /\ Len(action.args) > Len(schema.positional_args)
                /\ ~schema.allow_extra_args
        THEN SchemaValidationResult(FALSE, "TOO_MANY_ARGS")
        ELSE IF keys # None THEN SchemaValidationResult(FALSE, keys)
        ELSE IF named # None THEN SchemaValidationResult(FALSE, named)
        ELSE SchemaValidationResult(TRUE, None)

\* the specs of the generated schemas: an enumerated string with a pattern
\* (tests/test_schema.py, TestConstraintOrder), an integer in a range, and an
\* optional string
SpecShapes(name) ==
    { ArgumentSpec(name, "STRING", TRUE, {{Value("str", "abc", 0)}},
                   {{"abc", "xyz"}}, {}, {}),
      ArgumentSpec(name, "INTEGER", TRUE, {}, {}, {1}, {3}),
      ArgumentSpec(name, "STRING", FALSE, {}, {{"abc", "xyz"}}, {}, {}) }

\* the values of the generated actions
ArgValues ==
    { Value("str", "abc", 0), Value("str", "xyz", 0), Value("str", "ABC", 0),
      Value("int", "", 2), Value("int", "", 5), NoneValue }

\* the dicts with at most n entries, each one of Entries
DictsOf(Entries, n) ==
    { d \in ListsUpTo(Entries, n) :
        \A i, j \in 1..Len(d) : d[i].key = d[j].key => i = j }

SchemaSet ==
    LET Entries == UNION { { [key |-> k, value |-> spec] : spec \in SpecShapes(k) } :
                             k \in {"a", "b"} }
    IN  UNION { { VerbSchema(p, d, x) :
                    p \in [1..n -> SpecShapes("p")],
                    d \in DictsOf(Entries, MaxArgs - n), x \in BOOLEAN } :
                  n \in 0..MaxArgs }

ActionSet ==
    LET Entries == { [key |-> k, value |-> v] : k \in {"a", "b", "z"}, v \in ArgValues }
    IN  UNION { { [args |-> a, named_args |-> d] :
                    a \in [1..n -> ArgValues], d \in DictsOf(Entries, MaxArgs - n) } :
                  n \in 0..MaxArgs }

\* the inputs are drawn by Init; the one step applies validate to them
Validate ==
    /\ last.op = "input"
    /\ last' = [op |-> "validate", schema |-> last.schema, action |-> last.action,
                ret |-> validate(last.schema, last.action)]
    /\ UNCHANGED knowledge
    /\ UNCHANGED others

InitSchema ==
    /\ InitWith(TreeEngine)
    /\ \E schema \in SchemaSet, action \in ActionSet :
           /\ last = [op |-> "input", schema |-> schema, action |-> action]

NextSchema == Quiet(Validate)

SpecSchema == InitSchema /\ [][NextSchema]_vars

\* the order of the claim: the named arguments are gone through as they come
\* in, each rejected if unknown or else type-checked and constraint-checked,
\* and a missing required one is reported after all of them
RECURSIVE claimed_incoming(_, _, _)
claimed_incoming(named_args, schema, i) ==
    IF i > Len(named_args) THEN None
    ELSE LET key == named_args[i].key
             code == IF ~HasKey(schema.named_args, key)
                     THEN (IF schema.allow_extra_args THEN None ELSE "INVALID_ARGS")
                     ELSE check_value(named_args[i].value,
                                      Lookup(schema.named_args, key))
         IN  IF code # None THEN code
             ELSE claimed_incoming(named_args, schema, i + 1)

claimed_code(schema, action) ==
    LET positional == validate_positional(action.args, schema.positional_args, 1)
        incoming == claimed_incoming(action.named_args, schema, 1)
    IN  IF positional # None THEN positional
        ELSE IF /\ Len(action.args) > Len(schema.positional_args)
                /\ ~schema.allow_extra_args
        THEN "TOO_MANY_ARGS"
        ELSE IF incoming # None THEN incoming
        ELSE IF \E i \in 1..Len(schema.named_args) :
                    /\ schema.named_args[i].value.required
                    /\ ~HasKey(action.named_args, schema.named_args[i].key)
        THEN "MISSING_ARG"
        ELSE None

\* C21: the code validate reports is the first violation in the order
\* positionals by index, TOO_MANY_ARGS, each incoming named argument
\* (INVALID_ARGS, or its type and constraint checks), and only then
\* MISSING_ARG for an absent required named argument.
C21_ReportedCode ==
    last.op = "validate" =>
        last.ret.error_code = claimed_code(last.schema, last.action)

----------------------------------------------------------------------------
(* expression.py, context.py, guardrail.py.  A text is the sequence of its   *)
(* characters.  An expression is given as the parse tree parser.expr()       *)
(* makes of its text: a leaf keeps the kind of the value and its text, an    *)
(* inner node the operator and the two operands.  A value is its Python      *)
(* type, its text (str) and its number as the fraction num/den (int, float,  *)
(* bool).  The outcome of a call is the exception it raises ("" for none)    *)
(* and the value it returns.                                                 *)

Val(type, text, num, den) == [type |-> type, text |-> text, num |-> num, den |-> den]

PyNone == Val("NoneType", "", 0, 1)

PyBool(b) == Val("bool", "", IF b THEN 1 ELSE 0, 1)

PyFloat(num, den) == IF den < 0 THEN Val("float", "", 0 - num, 0 - den)
                     ELSE Val("float", "", num, den)

Returns(value) == [raised |-> "", value |-> value]

Raises(exception) == [raised |-> exception, value |-> PyNone]

\* isinstance(obj, (int, float)): bool is a subclass of int
IsNumber(obj) == obj.type \in {"int", "float", "bool"}

\* a context: the values at the paths that lead to a leaf, and the paths that
\* lead to a nested dict
MapContext(leaves, dicts) == [leaves |-> leaves, dicts |-> dicts]

\* MapContext.get
context_get(context, path) ==
    IF path = <<>> THEN PyNone
    ELSE IF path \in DOMAIN context.leaves THEN context.leaves[path]
    ELSE IF path \in context.dicts THEN Val("dict", "", 0, 1)
    ELSE PyNone

Leaf(kind, chars, value) == [kind |-> kind, chars |-> chars, value |-> value]

Node(op, left, right) == [kind |-> "expr", op |-> op, left |-> left, right |-> right]

\* ctx.getText() of a tree
RECURSIVE getText(_)
getText(ctx) ==
    IF ctx.kind = "expr"
    THEN (IF ctx.left.kind = "expr" THEN <<"(">> \o getText(ctx.left) \o <<")">>
          ELSE getText(ctx.left))
         \o ctx.op
         \o (IF ctx.right.kind = "expr" THEN <<"(">> \o getText(ctx.right) \o <<")">>
             ELSE getText(ctx.right))
    ELSE ctx.chars

_evaluate_value(ctx, context) ==
    IF ctx.kind = "path" THEN context_get(context, ctx.chars) ELSE ctx.value

_to_double(obj) ==
    IF IsNumber(obj) THEN Returns(PyFloat(obj.num, obj.den)) ELSE Raises("ValueError")

_to_boolean(obj) ==
    IF obj.type = "bool" THEN obj.num # 0
    ELSE IF IsNumber(obj) THEN obj.num # 0
    ELSE IF obj.type = "str" THEN obj.text # ""
    ELSE obj.type # "NoneType"

_compare_equals(left, right) ==
    IF left.type = "NoneType" /\ right.type = "NoneType" THEN TRUE
    ELSE IF left.type = "NoneType" \/ right.type = "NoneType" THEN FALSE
    ELSE IF IsNumber(left) /\ IsNumber(right)
    THEN left.num * right.den = right.num * left.den
    ELSE left = right

_compare_numbers(left, right, op) ==
    LET l == left.num * right.den
        r == right.num * left.den
    IN  IF op = <<">">> THEN l > r
        ELSE IF op = <<"<">> THEN l < r
        ELSE IF op = <<">", "=">> THEN l >= r
        ELSE IF op = <<"<", "=">> THEN l <= r
        ELSE FALSE

_evaluate_relational(left, right, op) ==
    IF left.type = "NoneType" \/ right.type = "NoneType"
    THEN (IF op = <<"=", "=">> THEN Returns(PyBool(left.type = right.type))
          ELSE IF op = <<"!", "=">> THEN Returns(PyBool(left.type # right.type))
          ELSE Returns(PyBool(FALSE)))
    ELSE IF op = <<"=", "=">> THEN Returns(PyBool(_compare_equals(left, right)))
    ELSE IF op = <<"!", "=">> THEN Returns(PyBool(~_compare_equals(left, right)))
    ELSE IF op \in {<<">">>, <<"<">>, <<">", "=">>, <<"<", "=">>}
    THEN (IF ~(IsNumber(left) /\ IsNumber(right)) THEN Raises("ValueError")
          ELSE Returns(PyBool(_compare_numbers(left, right, op))))
    ELSE Returns(PyBool(FALSE))

_evaluate_arithmetic(left, right, op) ==
    LET left_num == _to_double(left)
        right_num == _to_double(right)
        l == left_num.value
        r == right_num.value
    IN  IF left_num.raised # "" THEN left_num
        ELSE IF right_num.raised # "" THEN right_num
        ELSE IF op = <<"+">>
        THEN Returns(PyFloat(l.num * r.den + r.num * l.den, l.den * r.den))
        ELSE IF op = <<"-">>
        THEN Returns(PyFloat(l.num * r.den - r.num * l.den, l.den * r.den))
        ELSE IF op = <<"*">> THEN Returns(PyFloat(l.num * r.num, l.den * r.den))
        ELSE IF op = <<"/">>
        THEN (IF r.num = 0 THEN Raises("ArithmeticError")
              ELSE Returns(PyFloat(l.num * r.den, l.den * r.num)))
        ELSE Returns(PyFloat(0, 1))

RECURSIVE _evaluate_expr(_, _)
_evaluate_expr(ctx, context) ==
    IF ctx.kind # "expr" THEN Returns(_evaluate_value(ctx, context))
    ELSE LET left == _evaluate_expr(ctx.left, context)
             right == _evaluate_expr(ctx.right, context)
         IN  IF left.raised # "" THEN left
             ELSE IF right.raised # "" THEN right
             ELSE IF ctx.op = <<"|", "|">>
             THEN Returns(PyBool(_to_boolean(left.value) \/ _to_boolean(right.value)))
             ELSE IF ctx.op = <<"&", "&">>
             THEN Returns(PyBool(_to_boolean(left.value) /\ _to_boolean(right.value)))
             ELSE IF ctx.op \in {<<"+">>, <<"-">>, <<"*">>, <<"/">>}
             THEN _evaluate_arithmetic(left.value, right.value, ctx.op)
             ELSE _evaluate_relational(left.value, right.value, ctx.op)

\* str.strip() == ""
IsBlank(text) == \A i \in 1..Len(text) : text[i] = " "

\* op in reason
HasSubstring(text, op) ==
    \E i \in 1..(Len(text) - Len(op) + 1) : SubSeq(text, i, i + Len(op) - 1) = op

\* ExpressionEvaluator.evaluate of a text whose parse is ctx; a text that
\* does not parse has the kind "syntax error"
evaluate(expression, context) ==
    IF IsBlank(expression.text) THEN Returns(PyNone)
    ELSE IF expression.ctx.kind = "syntax error" THEN Raises("SAGParseException")
    ELSE LET res == _evaluate_expr(expression.ctx, context)
         IN  IF res.raised # "" THEN Raises("SAGParseException") ELSE res

_is_expression(reason) ==
    \E op \in {<<">">>, <<"<">>, <<"=", "=">>, <<"!", "=">>, <<">", "=">>,
               <<"<", "=">>, <<"&", "&">>, <<"|", "|">>} :
        HasSubstring(reason, op)

ValidationResult(valid, error_code) == [valid |-> valid, error_code |-> error_code]

\* A slip of guardrail_validate: any reason is evaluated, and a result that
\* is not a boolean fails.
guardrail_validate_all(action, context) ==
    IF ~action.has_reason \/ IsBlank(action.reason.text)
    THEN [result |-> ValidationResult(TRUE, None), evaluated |-> FALSE]
    ELSE LET res == evaluate(action.reason, context)
         IN  [result |->
                 IF res.raised # "" THEN ValidationResult(FALSE, "INVALID_EXPRESSION")
                 ELSE IF res.value.type = "bool" /\ res.value.num # 0
                 THEN ValidationResult(TRUE, None)
                 ELSE ValidationResult(FALSE, "PRECONDITION_FAILED"),
              evaluated |-> TRUE]

\* GuardrailValidator.validate: its result, and whether it called
\* ExpressionEvaluator.evaluate
guardrail_validate(action, context) ==
    IF ~action.has_reason \/ IsBlank(action.reason.text)
    THEN [result |-> ValidationResult(TRUE, None), evaluated |-> FALSE]
    ELSE IF ~_is_expression(action.reason.text)
    THEN [result |-> ValidationResult(TRUE, None), evaluated |-> FALSE]
    ELSE LET res == evaluate(action.reason, context)
         IN  [result |->
                 IF res.raised # "" THEN ValidationResult(FALSE, "INVALID_EXPRESSION")
                 ELSE IF res.value.type = "bool"
                 THEN (IF res.value.num = 0
                       THEN ValidationResult(FALSE, "PRECONDITION_FAILED")
                       ELSE ValidationResult(TRUE, None))
                 ELSE IF res.value.type # "NoneType" THEN ValidationResult(TRUE, None)
                 ELSE ValidationResult(FALSE, "PRECONDITION_FAILED"),
              evaluated |-> TRUE]

\* the operators of the grammar
Ops ==
    { <<"|", "|">>, <<"&", "&">>, <<"=", "=">>, <<"!", "=">>, <<">">>, <<"<">>,
      <<">", "=">>, <<"<", "=">>, <<"+">>, <<"-">>, <<"*">>, <<"/">> }

\* the values of the generated expressions: literals, a path the contexts
\* may resolve (tests/test_guardrail.py) and a path they never resolve
Leaves ==
    { Leaf("int", <<"2">>, Val("int", "", 2, 1)),
      Leaf("int", <<"0">>, Val("int", "", 0, 1)),
      Leaf("string", <<"\"", "a", "\"">>, Val("str", "a", 0, 1)),
      Leaf("bool", <<"t", "r", "u", "e">>, PyBool(TRUE)),
      Leaf("null", <<"n", "u", "l", "l">>, PyNone),
      Leaf("path", <<"x">>, PyNone),
      Leaf("path", <<"y">>, PyNone) }

\* one operator on two values; one operator on such an expression and a value
Simple == { Node(op, l, r) : op \in Ops, l \in Leaves, r \in Leaves }

\* the inner expression is one on numbers and the unresolved path
Nested ==
    LET Inner == { ctx \in Simple :
                     /\ ctx.left.chars \in {<<"2">>, <<"0">>, <<"y">>}
                     /\ ctx.right.chars \in {<<"2">>, <<"0">>, <<"y">>} }
    IN  { Node(op, l, r) : op \in Ops, l \in Inner, r \in Leaves }
        \cup { Node(op, l, r) : op \in Ops, l \in Leaves, r \in Inner }

Expressions ==
    { [text |-> getText(ctx), ctx |-> ctx] : ctx \in Leaves \cup Simple \cup Nested }

\* the reasons: blank, a human explanation, a text with an operator that
\* does not parse, and the expressions
Reasons ==
    { [text |-> <<" ">>, ctx |-> [kind |-> "syntax error"]],
      [text |-> <<"o", "k">>, ctx |-> Leaf("path", <<"o", "k">>, PyNone)],
      [text |-> <<"x", ">">>, ctx |-> [kind |-> "syntax error"]] }
    \cup Expressions

Contexts ==
    { MapContext(<<>>, {}),
      MapContext([p \in {<<"x">>} |-> Val("int", "", 2, 1)], {}),
      MapContext([p \in {<<"x", ".", "z">>} |-> Val("int", "", 2, 1)], {<<"x">>}) }

\* the inputs are drawn by Init; a step applies evaluate or validate to them
Evaluate ==
    /\ last.op = "input"
    /\ last.has_reason
    /\ last' = [op |-> "evaluate", reason |-> last.reason, context |-> last.context,
                ret |-> evaluate(last.reason, last.context)]
    /\ UNCHANGED knowledge
    /\ UNCHANGED others

GuardrailValidate ==
    /\ last.op = "input"
    /\ LET action == [has_reason |-> last.has_reason, reason |-> last.reason]
           res == guardrail_validate(action, last.context)
       IN  last' = [op |-> "validate", has_reason |-> last.has_reason,
                    reason |-> last.reason, context |-> last.context,
                    ret |-> res.result, evaluated |-> res.evaluated]
    /\ UNCHANGED knowledge
    /\ UNCHANGED others

InitGuard ==
    /\ InitWith(TreeEngine)
    /\ \E reason \in Reasons, context \in Contexts, has_reason \in BOOLEAN :
           /\ ~has_reason => reason.text = <<" ">>
           /\ last = [op |-> "input", has_reason |-> has_reason, reason |-> reason,
                      context |-> context]

NextGuard == Quiet(Evaluate \/ GuardrailValidate)

SpecGuard == InitGuard /\ [][NextGuard]_vars

\* C22: a reason with one of > < == != >= <= && || is evaluated, and a
\* boolean false fails with PRECONDITION_FAILED while a boolean true or any
\* other value that is not null passes; an action with no reason or with a
\* reason that has none of these operators passes without being evaluated.
C22_Guardrail ==
    last.op = "validate" =>
        LET text == last.reason.text
            has_operator ==
                \E i \in 1..Len(text) :
                    \/ text[i] \in {">", "<"}
                    \/ /\ i < Len(text)
                       /\ <<text[i], text[i + 1]>> \in
                              {<<"=", "=">>, <<"!", "=">>, <<"&", "&">>, <<"|", "|">>}
            res == evaluate(last.reason, last.context)
        IN  IF last.has_reason /\ has_operator
            THEN /\ last.evaluated
                 /\ (res.raised = "" /\ res.value.type = "bool" /\ res.value.num = 0)
                        => (~last.ret.valid /\ last.ret.error_code = "PRECONDITION_FAILED")
                 /\ (res.raised = "" /\ res.value.type = "bool" /\ res.value.num # 0)
                        => last.ret.valid
                 /\ (res.raised = "" /\ res.value.type \notin {"bool", "NoneType"})
                        => last.ret.valid
            ELSE last.ret.valid /\ ~last.evaluated

\* a reason with an operator passed with a value that is not a boolean, and
\* a reason without one passed unevaluated
C22_Witness ==
    /\ last.op = "validate"
    /\ last.has_reason
    /\ last.evaluated
    /\ last.ret.valid
    /\ evaluate(last.reason, last.context).value.type = "float"

\* the evaluation of ctx meets one of the failures of the claim: a path the
\* context does not resolve, a division by zero, or one of + - * / > < >= <=
\* on an operand that is not a number
RECURSIVE MeetsFailure(_, _)
MeetsFailure(ctx, context) ==
    IF ctx.kind = "path"
    THEN ctx.chars \notin (DOMAIN context.leaves) \cup context.dicts
    ELSE IF ctx.kind # "expr" THEN FALSE
    ELSE \/ MeetsFailure(ctx.left, context)
         \/ MeetsFailure(ctx.right, context)
         \/ LET left == _evaluate_expr(ctx.left, context)
                right == _evaluate_expr(ctx.right, context)
            IN  /\ left.raised = ""
                /\ right.raised = ""
                /\ \/ /\ ctx.op \in {<<"+">>, <<"-">>, <<"*">>, <<"/">>, <<">">>,
                                     <<"<">>, <<">", "=">>, <<"<", "=">>}
                      /\ ~IsNumber(left.value) \/ ~IsNumber(right.value)
                   \/ /\ ctx.op = <<"/">>
                      /\ IsNumber(right.value)
                      /\ right.value.num = 0

\* C23: an evaluation that divides by zero, applies one of + - * / > < >= <=
\* to an operand that is not a number, or references a path the context
\* cannot resolve is reported as an evaluation error and gives no value.
C23_EvaluationErrors ==
    (/\ last.op = "evaluate"
     /\ ~IsBlank(last.reason.text)
     /\ last.reason.ctx.kind # "syntax error"
     /\ MeetsFailure(last.reason.ctx, last.context))
        => last.ret.raised = "SAGParseException"

----------------------------------------------------------------------------
(* The round trip of a message through to_minified_string and parse *)

\* the reasons of the generated actions: none, strings with and without an
\* operator, a blank or a quote, and the text of an expression
ReasonSet ==
    { NoneStr, Str(<<"o", "k">>), Str(<<"a", ">", "1">>),
      Str(<<"a", " ", ">", " ", "1">>), Str(<<"a", "&", "&", "b">>),
      Str(<<"a", "\"", "b">>), Str(<<">">>) }

\* the statements a parse gives: KNOW, SUB, UNSUB and actions
ParsedStatements ==
    { KnowledgeStatement(<<"d", ".", "s">>, PyStr("healthy"), 1),
      SubscribeStatement(<<"s", ".", "*">>, NoneStr),
      SubscribeStatement(<<"s", ".", "*">>, Str(<<"a", ">", "1">>)),
      UnsubscribeStatement(<<"s", ".", "*">>) }
    \cup { ActionStatement("deploy", reason) : reason \in ReasonSet }

MessageSet ==
    { [header |-> create_response_header(c, "svc1", 1, "svc1", "svc2"),
       statements |-> stmts] :
        c \in { CorrelationEngine, record_incoming(CorrelationEngine, Incoming(<<"svc2", 1>>)) },
        stmts \in ListsUpTo(ParsedStatements, MaxStmts) \ { <<>> } }

\* the inputs are drawn by Init; the one step minifies the message, parses the
\* text and minifies the parsed message
RoundTrip ==
    /\ last.op = "input"
    /\ \E empty_body_parses \in BOOLEAN :
           LET wire == to_minified_string(last.message)
               parsed == parse(wire, empty_body_parses)
           IN  last' = [op |-> "round_trip", message |-> last.message,
                        wire |-> wire, parsed |-> parsed,
                        again |-> IF parsed.raised # "" THEN <<>>
                                  ELSE <<to_minified_string(parsed.message)>>]
    /\ UNCHANGED knowledge
    /\ UNCHANGED others

InitRoundTrip ==
    /\ InitWith(TreeEngine)
    /\ \E message \in MessageSet : last = [op |-> "input", message |-> message]

NextRoundTrip == Quiet(RoundTrip)

SpecRoundTrip == InitRoundTrip /\ [][NextRoundTrip]_vars

\* C24: parse(minify(M)) equals M, header and every statement (KNOW, SUB and
\* UNSUB statements and actions with a reason given as a string or as an
\* expression), and minify(parse(minify(M))) equals minify(M).
C24_RoundTrip ==
    last.op = "round_trip" =>
        /\ last.parsed.raised = ""
        /\ last.parsed.message.header = last.message.header
        /\ Len(last.parsed.message.statements) = Len(last.message.statements)
        /\ \A i \in 1..Len(last.message.statements) :
               /\ DOMAIN last.parsed.message.statements[i]
                      = DOMAIN last.message.statements[i]
               /\ last.parsed.message.statements[i] = last.message.statements[i]
        /\ last.again = <<last.wire>>

----------------------------------------------------------------------------
(* A save that runs beside load and list_checkpoints.  path.write_text       *)
(* opens the file of the checkpoint for writing, which creates it empty,     *)
(* writes the text piece by piece and closes it.                             *)

WritePieces == 2      \* writes of one write_text; the last completes the file

\* save up to the open of write_text: the document is made, the file exists
\* and is empty
SaveOpen ==
    /\ frame = Idle
    /\ Len(files) < MaxCheckpoints
    /\ LET written == save(files, nodes, knowledge, correlation, grove.message_log,
                           grove.agents_run, grove.current_level,
                           Len(grove.levels))
           text == written[Len(written)]
       IN  /\ files' = Append(files, [pieces |-> 0])
           /\ frame' = [pc |-> "write_text", id |-> Len(files) + 1, text |-> text]
    /\ last' = [op |-> "open", id |-> Len(files) + 1]
    /\ UNCHANGED <<nodes, root, knowledge, correlation, counter, grove, trace,
                   saved>>

\* one write of write_text
SaveWrite ==
    /\ frame.pc = "write_text"
    /\ IF files[frame.id].pieces + 1 < WritePieces
       THEN /\ files' = [files EXCEPT ![frame.id].pieces = @ + 1]
            /\ frame' = frame
            /\ last' = [op |-> "write", id |-> frame.id]
       ELSE /\ files' = [files EXCEPT ![frame.id] = frame.text]
            /\ frame' = Idle
            /\ last' = [op |-> "save", id |-> frame.id]
    /\ UNCHANGED <<nodes, root, knowledge, correlation, counter, grove, trace,
                   saved>>

\* load(checkpoint_id) by another thread
Load(checkpoint_id) ==
    /\ last' = [op |-> "load", id |-> checkpoint_id,
                raised |-> load(files, checkpoint_id).raised,
                during |-> frame.pc]
    /\ UNCHANGED <<nodes, root, knowledge, correlation, counter, files, grove,
                   frame, trace, saved>>

\* list_checkpoints() by another thread
ListCheckpoints ==
    /\ last' = [op |-> "list_checkpoints",
                ret |-> [i \in 1..Len(list_checkpoints(files)) |->
                            list_checkpoints(files)[i].checkpoint_id],
                during |-> frame.pc]
    /\ UNCHANGED <<nodes, root, knowledge, correlation, counter, files, grove,
                   frame, trace, saved>>

\* The root asserts facts and records incoming messages; checkpoints are
\* saved while other threads load and list.
NextWrite ==
    \/ Quiet(frame = Idle /\ AssertFact("root", {<<"b">>}, {X}))
    \/ Quiet(frame = Idle /\ RecordIncoming("root", {<<"p", 1>>, NoId}))
    \/ Quiet(SaveOpen)
    \/ Quiet(SaveWrite)
    \/ \E id \in 1..(MaxCheckpoints + 1) : Quiet(Load(id))
    \/ Quiet(ListCheckpoints)

SpecWrite == InitCheckpoint /\ [][NextWrite]_vars

\* C25: a checkpoint file is written in full before it is visible under its
\* id: no file of the directory holds a part of its text, and no load or list
\* that runs beside a save gets one.
C25_AtomicWrite ==
    /\ \A i \in 1..Len(files) : "pieces" \notin DOMAIN files[i]
    /\ last.op = "load" => last.raised \in {"", "FileNotFoundError"}
    /\ last.op = "list_checkpoints" =>
           \A i \in 1..Len(last.ret) : "pieces" \notin DOMAIN files[last.ret[i]]

----------------------------------------------------------------------------
\* C26: after rollback(id) the message log holds the messages it held when
\* the checkpoint was taken: as many, in the same order, with the same
\* headers and KNOW statements.
C26_LogSurvivesRollback ==
    (last.op = "rollback" /\ last.raised = "") =>
        LET then == saved[last.id].grove.message_log
            now == grove.message_log
        IN  /\ Len(now) = Len(then)
            /\ \A i \in 1..Len(then) :
                   /\ now[i].header = then[i].header
                   /\ Len(now[i].statements) = Len(then[i].statements)
                   /\ \A j \in 1..Len(then[i].statements) :
                          /\ DOMAIN now[i].statements[j] = DOMAIN then[i].statements[j]
                          /\ now[i].statements[j] = then[i].statements[j]
----------------------------------------------------------------------------
(* fold.py: FoldEngine.  The store maps a fold id to a list object; `heap`   *)
(* holds the contents of the list objects, so that a list the engine keeps   *)
(* and a list a caller holds are the same object only if the code makes      *)
(* them so.  A returned Optional is a set: empty for None.                   *)

MaxFolds == 2         \* entries in a fold engine's store
MaxBudget == 1        \* the largest knowledge budget an engine is built with

FoldStatement(fold_id, summary, state) ==
    [fold_id |-> fold_id, summary |-> summary, state |-> state]

\* a new list object
NewList(h) == CHOOSE r \in 1..(Cardinality(DOMAIN h) + 1) : r \notin DOMAIN h

\* the list objects still referred to
Collect(h, live) == [r \in DOMAIN h \cap live |-> h[r]]

\* the list objects the engine keeps
Kept(store) == { store[f] : f \in DOMAIN store }

\* A slip of fold: the engine keeps the caller's list instead of a copy.
fold_shared(store, h, fold_id, messages, summary, state) ==
    [store |-> Put(store, fold_id, messages), heap |-> h,
     ret |-> FoldStatement(fold_id, summary, state)]

\* FoldEngine.fold; messages is the caller's list object and fold_id the
\* token cut from uuid4
fold(store, h, fold_id, messages, summary, state) ==
    LET kept == NewList(h)
    IN  [store |-> Put(store, fold_id, kept), heap |-> Put(h, kept, h[messages]),
         ret |-> FoldStatement(fold_id, summary, state)]

\* A slip of unfold: the engine's own list is handed out.
unfold_shared(store, h, fold_id) ==
    IF fold_id \in DOMAIN store
    THEN [heap |-> h, ret |-> {store[fold_id]}]
    ELSE [heap |-> h, ret |-> {}]

\* FoldEngine.unfold
unfold(store, h, fold_id) ==
    IF fold_id \in DOMAIN store
    THEN LET copy == NewList(h)
         IN  [heap |-> Put(h, copy, h[store[fold_id]]), ret |-> {copy}]
    ELSE [heap |-> h, ret |-> {}]

has_fold(store, fold_id) == fold_id \in DOMAIN store

get_fold_count(store) == Cardinality(DOMAIN store)

\* FoldEngine.clear
clear(store) == EmptyMap

----------------------------------------------------------------------------
(* knowledge.py: KnowledgeEngine._auto_fold *)

_min_acked_version(k) ==
    IF DOMAIN k.version_vectors = {} THEN k.local_version
    ELSE MinOf({ k.version_vectors[p] : p \in DOMAIN k.version_vectors })

\* f"Folded {len(to_fold)} knowledge facts"
FoldSummary(n) == <<"Folded ", ToString(n), " knowledge facts">>

\* A slip of _auto_fold: the facts are not filtered by the acknowledged version.
_auto_fold_unacked(k, store, h, fold_id) ==
    LET foldable == sort_by_version(k.facts)
        n == Len(k.facts) - k.knowledge_budget
        to_fold == SubSeq(foldable, 1, IF n < Len(foldable) THEN n ELSE Len(foldable))
        state == [t \in Topics(to_fold) |-> dict_get(to_fold, t).value]
        empty == NewList(h)
        res == fold(store, Put(h, empty, <<>>), fold_id, empty,
                    FoldSummary(Len(to_fold)), state)
        Stays(f) == f.topic \notin Topics(to_fold)
    IN  IF ~k.fold_engine \/ Len(k.facts) <= k.knowledge_budget \/ to_fold = <<>>
        THEN [engine |-> k, store |-> store, heap |-> h, ret |-> {}]
        ELSE [engine |-> [k EXCEPT !.facts = SelectSeq(@, Stays)],
              store |-> res.store, heap |-> res.heap, ret |-> {res.ret}]

\* the engine, the fold engine's store and the list objects after the call,
\* and the statement returned
_auto_fold(k, store, h, fold_id) ==
    LET min_acked == _min_acked_version(k)
        Acked(f) == f.version <= min_acked
        foldable == sort_by_version(SelectSeq(k.facts, Acked))
        n == Len(k.facts) - k.knowledge_budget
        \* foldable[:n], with n > 0 where it is evaluated
        to_fold == SubSeq(foldable, 1, IF n < Len(foldable) THEN n ELSE Len(foldable))
        state == [t \in Topics(to_fold) |-> dict_get(to_fold, t).value]
        empty == NewList(h)
        res == fold(store, Put(h, empty, <<>>), fold_id, empty,
                    FoldSummary(Len(to_fold)), state)
        Stays(f) == f.topic \notin Topics(to_fold)
    IN  IF ~k.fold_engine \/ Len(k.facts) <= k.knowledge_budget
           \/ foldable = <<>> \/ to_fold = <<>>
        THEN [engine |-> k, store |-> store, heap |-> h, ret |-> {}]
        ELSE [engine |-> [k EXCEPT !.facts = SelectSeq(@, Stays)],
              store |-> res.store, heap |-> res.heap, ret |-> {res.ret}]

\* the tokens a fold id is drawn from
FoldIds == 1..MaxFolds

\* str(uuid.uuid4()).replace("-", "")[:16]: a draw of 64 random bits, taken
\* here to be a token the store does not hold
DrawnIds == FoldIds \ DOMAIN folds

\* ids: the tokens the draw may give
AutoFold(n, ids) ==
    \E fold_id \in ids \cap DrawnIds :
        LET res == _auto_fold(knowledge[n], folds, heap, fold_id)
        IN  /\ Cardinality(DOMAIN folds) < MaxFolds
            /\ knowledge' = [knowledge EXCEPT ![n] = res.engine]
            /\ folds' = res.store
            /\ heap' = Collect(res.heap, Kept(res.store))
            /\ last' = [op |-> "_auto_fold", node |-> n, ret |-> res.ret]
            /\ UNCHANGED others
            /\ UNCHANGED <<asserted, minted>>

\* one engine, built with or without a fold engine and with a budget
InitAutoFold ==
    \E attached \in BOOLEAN, budget \in 1..MaxBudget :
        /\ InitWith([add_root(TreeEngine, "root") EXCEPT
                        !.knowledge["root"] =
                            [KnowledgeEngine EXCEPT !.fold_engine = attached,
                                                    !.knowledge_budget = budget]])
        /\ last = [op |-> "init"]

\* Facts arrive by assert_fact and, on a third topic, by single incoming
\* statements; one peer acknowledges, and the engine is asked to fold.
NextAutoFold ==
    \/ Quiet(AssertFact("root", TopicSet, {X}))
    \/ Quiet(ApplyIncoming("root", ListsUpTo(StatementsOf({<<"c">>}, {PyStr("y")}), 1)))
    \/ Quiet(AcknowledgeSync("root", {"p"}))
    \/ AutoFold("root", { Cardinality(DOMAIN folds) + 1 })

SpecAutoFold == InitAutoFold /\ [][NextAutoFold]_vars

\* the facts _auto_fold may fold: those every peer has acknowledged
Candidates(k) ==
    { i \in 1..Len(k.facts) : k.facts[i].version <= _min_acked_version(k) }

\* the facts of k that k2 no longer holds
Removed(k, k2) == { i \in 1..Len(k.facts) : ~HasTopic(k2.facts, k.facts[i].topic) }

\* what _auto_fold does to the engine in one step, but for the number of
\* facts it leaves
AutoFoldEffect(k, k2, ret) ==
    LET excess == Len(k.facts) - k.knowledge_budget
        gone == Removed(k, k2)
        Stays(f) == HasTopic(k2.facts, f.topic)
    IN  /\ (~k.fold_engine \/ excess <= 0 \/ Candidates(k) = {})
               => ret = {} /\ k2 = k /\ folds' = folds
        /\ (k.fold_engine /\ excess > 0 /\ Candidates(k) # {}) =>
               /\ gone \subseteq Candidates(k)
               /\ Cardinality(gone) =
                      (IF excess < Cardinality(Candidates(k))
                       THEN excess ELSE Cardinality(Candidates(k)))
               /\ \A i \in gone, j \in Candidates(k) \ gone :
                      k.facts[i].version <= k.facts[j].version
               /\ k2 = [k EXCEPT !.facts = SelectSeq(k.facts, Stays)]
               /\ \E stmt \in ret :
                      /\ DOMAIN stmt.state = { k.facts[i].topic : i \in gone }
                      /\ \A i \in gone :
                             stmt.state[k.facts[i].topic] = k.facts[i].value

\* C27 as stated: _auto_fold acts only with a fold engine attached and more
\* facts than the budget; it removes the (fact count - budget) lowest-versioned
\* facts among those at or below the minimum acknowledged version, returns
\* their topics and values as the statement's state and leaves the other facts
\* alone, and afterwards the fact count is at most the budget.
C27_WithinBudget ==
    [][last'.op = "_auto_fold" =>
           /\ AutoFoldEffect(knowledge["root"], knowledge'["root"], last'.ret)
           /\ last'.ret # {} =>
                  Len(knowledge'["root"].facts) <= knowledge["root"].knowledge_budget]_vars

\* C27 as amended: _auto_fold acts only with a fold engine attached and more
\* facts than the budget; it removes the lowest-versioned of the facts at or
\* below the minimum acknowledged version, as many as the excess (fact count -
\* budget) or all of them if they are fewer, returns their topics and values
\* as the statement's state and leaves every other fact and field alone; the
\* count it leaves is the budget, or more when fewer facts qualify than the
\* excess; when none qualifies it returns absent and changes nothing.
C27_AutoFold ==
    [][last'.op = "_auto_fold" =>
           /\ AutoFoldEffect(knowledge["root"], knowledge'["root"], last'.ret)
           /\ last'.ret # {} =>
                  LET k == knowledge["root"]
                      left == Len(k.facts) - Cardinality(Candidates(k))
                  IN  Len(knowledge'["root"].facts) =
                          (IF left > k.knowledge_budget THEN left
                           ELSE k.knowledge_budget)]_vars

\* a fold has just removed two facts and left a third, unacknowledged one
C27_Witness ==
    /\ last.op = "_auto_fold"
    /\ last.ret # {}
    /\ \E stmt \in last.ret : Cardinality(DOMAIN stmt.state) = 2
    /\ Len(knowledge["root"].facts) = 1
    /\ knowledge["root"].facts[1].version > _min_acked_version(knowledge["root"])

----------------------------------------------------------------------------
(* The fold engine on its own: callers fold lists of messages, unfold them, *)
(* append to the lists they hold and clear the engine.  The step's record    *)
(* carries two histories: `passed`, the contents of the list given to each   *)
(* fold since the last clear, and `folded`, the number of those folds.       *)

\* the messages of the folded lists
FoldMessage(n) ==
    [header |-> create_response_header(CorrelationEngine, "svc1", n, "svc1", "svc2"),
     statements |-> <<>>]

FoldMessages == { FoldMessage(1), FoldMessage(2) }

\* the list objects a caller holds after the call: the list it passed to
\* fold, the list unfold gave it, the list it appended to
Held(call) ==
    IF call.op = "fold" THEN {call.messages}
    ELSE IF call.op = "unfold" THEN call.ret
    ELSE IF call.op = "append" THEN {call.list}
    ELSE {}

\* ids: the tokens the draw may give
Fold(ids) ==
    \E fold_id \in ids \cap DrawnIds, messages \in ListsUpTo(FoldMessages, MaxStmts) :
        LET given == NewList(heap)
            res == fold(folds, Put(heap, given, messages), fold_id, given,
                        <<"summary">>, EmptyMap)
            call == [op |-> "fold", messages |-> given, ret |-> res.ret,
                     passed |-> Put(last.passed, fold_id, messages),
                     folded |-> last.folded + 1]
        IN  /\ folds' = res.store
            /\ heap' = Collect(res.heap, Kept(res.store) \cup Held(call))
            /\ last' = call

Unfold(ids) ==
    \E fold_id \in ids :
        LET res == unfold(folds, heap, fold_id)
            call == [op |-> "unfold", fold_id |-> fold_id, ret |-> res.ret,
                     passed |-> last.passed, folded |-> last.folded]
        IN  /\ folds' = folds
            /\ heap' = Collect(res.heap, Kept(folds) \cup Held(call))
            /\ last' = call

\* the caller appends a message to a list it holds
AppendToHeld ==
    \E r \in Held(last), message \in { FoldMessage(1) } :
        LET call == [op |-> "append", list |-> r,
                     passed |-> last.passed, folded |-> last.folded]
        IN  /\ Len(heap[r]) <= MaxStmts
            /\ folds' = folds
            /\ heap' = Collect([heap EXCEPT ![r] = Append(@, message)],
                               Kept(folds) \cup Held(call))
            /\ last' = call

GetFoldCount ==
    /\ last' = [op |-> "get_fold_count", ret |-> get_fold_count(folds),
                passed |-> last.passed, folded |-> last.folded]
    /\ folds' = folds
    /\ heap' = Collect(heap, Kept(folds))

Clear ==
    /\ folds' = clear(folds)
    /\ heap' = EmptyMap
    /\ last' = [op |-> "clear", passed |-> EmptyMap, folded |-> 0]

\* a step of the fold engine leaves everything else alone
Folding(A) ==
    /\ A
    /\ UNCHANGED knowledge
    /\ UNCHANGED others
    /\ UNCHANGED <<asserted, minted>>

InitFold ==
    /\ InitWith(TreeEngine)
    /\ last = [op |-> "init", passed |-> EmptyMap, folded |-> 0]

NextFold ==
    \/ Folding(Fold({ get_fold_count(folds) + 1 }))
    \/ Folding(Unfold(FoldIds \cup {0}))
    \/ Folding(AppendToHeld)
    \/ Folding(GetFoldCount)
    \/ Folding(Clear)

SpecFold == InitFold /\ [][NextFold]_vars

----------------------------------------------------------------------------
(* The correlation engines during Grove.execute *)

\* a root, its child and the child's child
ChainTree == add_child(PairTree, "a", "c")

\* create_response_header asked of the engine of node n, between the visits
\* of a run (from a callback) or outside a run
CreateResponseHeader(n, destinations) ==
    \E destination \in destinations :
        /\ counter <= MaxMessages
        /\ counter' = counter + 1
        /\ last' = [op |-> "create_response_header", node |-> n,
                    ret |-> create_response_header(correlation[n], n, counter,
                                                   n, destination)]
        /\ UNCHANGED <<nodes, root, knowledge, correlation, files, grove, frame,
                       trace, saved>>

InitCorrelate ==
    /\ InitWith(ChainTree)
    /\ last = [op |-> "init"]

\* Executions of one grove, one after the other on the same chain of three
\* nodes; headers are asked of the middle node's engine during a run (from a
\* callback) and of the root's engine between the runs.
NextCorrelate ==
    \/ Quiet(ExecuteEnter)
    \/ Quiet(ExecuteVisit)
    \/ Quiet(ExecuteReturn)
    \/ Quiet(frame.pc = "execute" /\ CreateResponseHeader("a", {"downstream"}))
    \/ Quiet(frame = Idle /\ CreateResponseHeader("root", {"downstream"}))

SpecCorrelate == InitCorrelate /\ [][NextCorrelate]_vars

\* the slot of a node's engine
last_received(n) == GetOr(correlation[n], "last_received", NoId)

\* the messages the running execute has logged for node n
Addressed(n) ==
    LET To(msg) == msg.header.destination = n
    IN  IF frame.pc = "execute" THEN SelectSeq(frame.message_log, To) ELSE <<>>

\* the id of the most recent of them, None if there is none
MostRecent(n) ==
    IF Addressed(n) = <<>> THEN NoId
    ELSE Addressed(n)[Len(Addressed(n))].header.message_id

\* the headers built in a step take the slot of the engine that builds them
HeadersCarrySlot ==
    /\ last'.op = "create_response_header" =>
           last'.ret.correlation = last_received(last'.node)
    /\ (last'.op = "visit" /\ Len(frame'.message_log) > Len(frame.message_log)) =>
           LET msg == frame'.message_log[Len(frame'.message_log)]
           IN  msg.header.correlation = last_received(msg.header.source)

\* C29 as stated: at every point of an execute a node's last_received is the
\* id of the most recent message logged for it, None if there is none, and
\* a header the node builds with create_response_header carries it.
C29_LastReceived ==
    [][/\ frame'.pc = "execute" =>
              \A n \in DOMAIN nodes : last_received(n)' = MostRecent(n)'
       /\ HeadersCarrySlot]_vars

\* C29 as amended: at every point of an execute at which a message has been
\* logged for a node, the node's last_received is the id of the most recent
\* such message; until the first one it is what it was when the execute
\* began (None on a tree whose engines have recorded nothing); and a header
\* the node builds with create_response_header carries the slot's value.
C29_Correlation ==
    [][/\ frame'.pc = "execute" =>
              \A n \in DOMAIN nodes :
                  IF Addressed(n)' # <<>>
                  THEN last_received(n)' = MostRecent(n)'
                  ELSE last_received(n)' = last_received(n)
       /\ (counter' = 1) => \A n \in DOMAIN nodes : last_received(n)' = NoId
       /\ HeadersCarrySlot]_vars

\* in a second execute the middle node has a message of this run, which the
\* header it built carries, while the root still holds an id of the first run
C29_Witness ==
    /\ frame.pc = "execute"
    /\ last.op = "create_response_header"
    /\ last.node = "a"
    /\ Addressed("a") # <<>>
    /\ last.ret.correlation = MostRecent("a")
    /\ Addressed("root") = <<>>
    /\ last_received("root") # NoId

----------------------------------------------------------------------------
(* One correlation engine: messages are recorded and headers are built *)

\* the messages given to the engine: with an id, with the id "", with the id
\* None, without a header, and None
GivenMessages ==
    { Incoming(id) : id \in { <<"p", 1>>, <<"q", 2>>, EmptyId, NoId } }
        \cup { [header |-> NoObject, statements |-> <<>>], NoObject }

RecordMessage(n, messages) ==
    \E message \in messages :
        /\ correlation' = [correlation EXCEPT ![n] = record_incoming(@, message)]
        /\ last' = [op |-> "record_incoming", node |-> n, message |-> message]
        /\ UNCHANGED <<nodes, root, knowledge, counter, files, grove, frame,
                       trace, saved>>

CreateHeaderWithCorrelation(n, ids) ==
    \E correlation_id \in ids :
        /\ counter <= MaxMessages
        /\ counter' = counter + 1
        /\ last' = [op |-> "create_header_with_correlation", node |-> n,
                    ret |-> create_header_with_correlation(
                                correlation[n], n, counter, n, "p", correlation_id)]
        /\ UNCHANGED <<nodes, root, knowledge, correlation, files, grove, frame,
                       trace, saved>>

CreateHeaderInResponseTo(n, messages) ==
    \E in_response_to \in messages :
        /\ counter <= MaxMessages
        /\ counter' = counter + 1
        /\ last' = [op |-> "create_header_in_response_to", node |-> n,
                    in_response_to |-> in_response_to,
                    ret |-> create_header_in_response_to(
                                correlation[n], n, counter, n, "p", in_response_to)]
        /\ UNCHANGED <<nodes, root, knowledge, correlation, files, grove, frame,
                       trace, saved>>

\* One engine: messages of every kind are recorded, and headers are built in
\* the three ways.
NextSlot ==
    \/ Minting(RecordMessage("root", GivenMessages))
    \/ Minting(CreateResponseHeader("root", {"p"}))
    \/ Minting(CreateHeaderWithCorrelation("root", { <<"q", 2>>, NoId }))
    \/ Minting(CreateHeaderInResponseTo("root", GivenMessages))

SpecSlot == InitKnow /\ [][NextSlot]_vars

\* the id a message carries, None if it is None or has no header
CarriedId(message) ==
    IF "header" \in DOMAIN message /\ "message_id" \in DOMAIN message.header
    THEN message.header.message_id
    ELSE NoId

\* C30: the slot of an engine is set only by record_incoming of a message
\* that carries a non-empty id; the three calls that build a header leave
\* it as it is, and create_header_in_response_to takes the id of the
\* message it is given, whatever the slot holds.
C30_SlotFrame ==
    [][/\ correlation' # correlation =>
              /\ last'.op = "record_incoming"
              /\ CarriedId(last'.message) \notin { NoId, EmptyId }
              /\ GetOr(correlation'[last'.node], "last_received", NoId) =
                     CarriedId(last'.message)
       /\ last'.op \in { "create_response_header", "create_header_with_correlation",
                         "create_header_in_response_to" } =>
              correlation' = correlation
       /\ last'.op = "create_header_in_response_to" =>
              last'.ret.correlation = CarriedId(last'.in_response_to)]_vars

----------------------------------------------------------------------------
(* A step that is run again after a rollback *)

\* the topics the runner asserted in the visit a step has just made
TopicsRun == trace'[Len(trace) + 2].facts

\* the messages the visit has appended to the log
Appended ==
    SubSeq(grove'.message_log, Len(grove.message_log) + 1, Len(grove'.message_log))

\* C31: the first visit of a step that follows rollback(id) gives what the
\* same visit gives from the state checkpoint(id) was taken in: the same
\* statements in the propagation messages and the same facts in the node,
\* its parent and the root; what the node asserts is propagated again.
C31_RerunAfterRollback ==
    [][(frame.pc = "step" /\ frame.resumed # 0 /\ frame.i = 1 /\ last'.op = "visit") =>
           LET was == saved[frame.resumed]
               n == last'.node
               first == visit(nodes, was.knowledge, was.correlation, counter, n,
                              TopicsRun)
           IN  /\ Len(Appended) = Len(first.messages)
               /\ \A i \in 1..Len(Appended) :
                      Appended[i].statements = first.messages[i].statements
               /\ \A m \in {n, root} \cup ({nodes[n].parent} \ {NoNode}) :
                      knowledge'[m].facts = first.knowledge[m].facts]_vars

----------------------------------------------------------------------------
(* Propagation along a chain of three nodes *)

\* the chain after tree.setup_subscriptions("**")
WiredChain ==
    [ChainTree EXCEPT !.knowledge =
        setup_subscriptions(ChainTree.nodes, ChainTree.knowledge, <<Star, Star>>)]

RECURSIVE propagate_all(_, _, _)
\* propagate_up called for the nodes of order, one after the other
propagate_all(ns, kn, order) ==
    IF order = <<>> THEN kn
    ELSE propagate_all(ns, propagate_up(ns, kn, Head(order)).knowledge, Tail(order))

\* the nodes below the root, the deepest level first
BottomUp(ns, rt) ==
    LET levels == get_levels_bottom_up(ns, rt)
        RECURSIVE Flat(_)
        Flat(i) == IF i >= Len(levels) THEN <<>> ELSE levels[i] \o Flat(i + 1)
    IN  Flat(1)

\* propagate_up for every node below the root, bottom-up
PropagateSweep ==
    /\ knowledge' = propagate_all(nodes, knowledge, BottomUp(nodes, root))
    /\ last' = [op |-> "sweep"]
    /\ UNCHANGED others

InitChain ==
    /\ InitWith(WiredChain)
    /\ last = [op |-> "init"]

\* The nodes of the wired chain assert facts and propagate upwards one by
\* one, in any order, and the whole chain is swept bottom-up.
NextChain ==
    \/ \E n \in DOMAIN knowledge : Quiet(AssertFact(n, TopicSet, {X}))
    \/ \E c \in DOMAIN nodes : Quiet(PropagateUp(c))
    \/ Quiet(PropagateSweep)

SpecChain == InitChain /\ [][NextChain]_vars

\* C32: after a bottom-up sweep of propagate_up over the wired tree every
\* topic a node holds is held by its parent too.
C32_NothingStranded ==
    last.op = "sweep" =>
        \A n \in DOMAIN nodes :
            nodes[n].parent # NoNode =>
                Topics(knowledge[n].facts) \subseteq Topics(knowledge[nodes[n].parent].facts)

----------------------------------------------------------------------------
(* Grove.execute as a function of the tree and the runner, and the          *)
(* interactive run measured against it                                      *)

RECURSIVE execute_loop(_, _, _, _, _, _)
\* the two loops of execute over the nodes in the order given; runner maps a
\* node to the topics its runner returns
execute_loop(ns, kn, co, ctr, order, runner) ==
    IF order = <<>>
    THEN [knowledge |-> kn, correlation |-> co, message_log |-> <<>>,
          events |-> <<>>, agents_run |-> 0]
    ELSE LET v == visit(ns, kn, co, ctr, Head(order), runner[Head(order)])
             rest == execute_loop(ns, v.knowledge, v.correlation, v.counter,
                                  Tail(order), runner)
         IN  [knowledge |-> rest.knowledge, correlation |-> rest.correlation,
              message_log |-> v.messages \o rest.message_log,
              events |-> v.events \o rest.events,
              agents_run |-> rest.agents_run + 1]

RECURSIVE Concat(_)
\* the lists of a list of lists, one after the other
Concat(lists) == IF lists = <<>> THEN <<>> ELSE Head(lists) \o Concat(Tail(lists))

\* A slip of execute: the levels are walked from the root downwards.
execute_top_down(t, runner) ==
    LET kn == setup_subscriptions(t.nodes, t.knowledge, <<Star, Star>>)
        levels == get_levels_bottom_up(t.nodes, t.root)
        r == execute_loop(t.nodes, kn, t.correlation, 1,
                          Concat([i \in 1..Len(levels) |-> levels[Len(levels) + 1 - i]]),
                          runner)
    IN  [facts |-> r.knowledge[t.root].facts, messages |-> r.message_log,
         agents_run |-> r.agents_run, levels_processed |-> Len(levels),
         knowledge |-> r.knowledge, events |-> r.events]

\* Grove.execute on the tree t: the GroveResult, with the engines the run
\* leaves and the callbacks it fired
execute(t, runner) ==
    LET kn == setup_subscriptions(t.nodes, t.knowledge, <<Star, Star>>)
        levels == get_levels_bottom_up(t.nodes, t.root)
        r == execute_loop(t.nodes, kn, t.correlation, 1, Concat(levels), runner)
    IN  [facts |-> r.knowledge[t.root].facts, messages |-> r.message_log,
         agents_run |-> r.agents_run, levels_processed |-> Len(levels),
         knowledge |-> r.knowledge, events |-> r.events]

\* what the runner returned for each node in the run the trace records
RunnerOf ==
    [n \in DOMAIN nodes |->
        LET i == CHOOSE j \in 1..Len(trace) : trace[j].ev = "run" /\ trace[j].node = n
        IN  trace[i].facts]

\* source, destination and statements of the messages of a log
Propagations(log) ==
    [i \in 1..Len(log) |->
        [source |-> log[i].header.source, destination |-> log[i].header.destination,
         statements |-> log[i].statements]]

\* the interactive run has processed every level
RunComplete ==
    /\ frame = Idle
    /\ grove.setup_done
    /\ grove.current_level >= Len(grove.levels)

\* C33: an interactive run taken to completion on a fresh tree, by steps, by
\* complete or by both, fires the callbacks execute fires on the same tree
\* with the same runner, in the same order, leaves the same fact maps and
\* gives the same propagation messages, agents_run and levels_processed.
C33_StepsAsExecute ==
    RunComplete =>
        LET e == execute(GroveTree, RunnerOf)
            r == result(grove, knowledge, root)
        IN  /\ trace = e.events
            /\ \A n \in DOMAIN nodes : knowledge[n].facts = e.knowledge[n].facts
            /\ r.facts = e.facts
            /\ Propagations(r.messages) = Propagations(e.messages)
            /\ r.agents_run = e.agents_run
            /\ r.levels_processed = e.levels_processed

\* a run of a step and a complete in which two nodes sent a message
C33_Witness ==
    /\ RunComplete
    /\ last.op = "complete"
    /\ last.raised = ""
    /\ last.from_level = 1
    /\ Len(last.ret.messages) >= 2
    /\ Len(trace) > 12

----------------------------------------------------------------------------
(* Siblings of one parent, run and propagated in any order *)

\* the tree of a root and two children after setup_subscriptions("**")
WiredFan ==
    [FanTree EXCEPT !.knowledge =
        setup_subscriptions(FanTree.nodes, FanTree.knowledge, <<Star, Star>>)]

\* the facts a sibling's runner may assert: up to MaxAsserts + 1 topics, each
\* once
SiblingFacts ==
    { s \in ListsUpTo(TopicSet, MaxAsserts + 1) :
        \A i, j \in 1..Len(s) : s[i] = s[j] => i = j }

\* the node has run, or has propagated, in this execution
HasRun(n) == \E i \in 1..Len(trace) : trace[i].ev = "run" /\ trace[i].node = n
HasPropagated(n) ==
    \E i \in 1..Len(trace) : trace[i].ev = "propagate_up" /\ trace[i].node = n

\* the runner call of the loop body, for one sibling
SiblingRun(n) ==
    /\ ~HasRun(n)
    /\ \E topics \in SiblingFacts :
           /\ knowledge' = [knowledge EXCEPT ![n] = run(@, n, topics)]
           /\ trace' = Append(trace, Event("run", n, topics))
           /\ last' = [op |-> "run", node |-> n]
    /\ UNCHANGED <<nodes, root, correlation, counter, files, grove, frame, saved>>

\* the propagation step of the loop body, for one sibling, as one step:
\* propagate_up, the message, the log and record_incoming
SiblingPropagate(n) ==
    /\ HasRun(n)
    /\ ~HasPropagated(n)
    /\ LET v == visit(nodes, knowledge, correlation, counter, n, <<>>)
       IN  /\ knowledge' = v.knowledge
           /\ correlation' = v.correlation
           /\ counter' = v.counter
           /\ grove' = [grove EXCEPT !.message_log = @ \o v.messages]
           /\ trace' = Append(trace, Event("propagate_up", n, <<>>))
           /\ last' = [op |-> "propagate", node |-> n]
    /\ UNCHANGED <<nodes, root, files, frame, saved>>

\* the loop body for the parent, once its children are done
ParentVisit ==
    /\ \A n \in Range(nodes[root].children) : HasPropagated(n)
    /\ ~HasRun(root)
    /\ \E topics \in SiblingFacts :
           LET v == visit(nodes, knowledge, correlation, counter, root, topics)
           IN  /\ knowledge' = v.knowledge
               /\ trace' = trace \o v.events
               /\ last' = [op |-> "visit", node |-> root,
                           child_facts |-> v.child_facts]
    /\ UNCHANGED <<nodes, root, correlation, counter, files, grove, frame, saved>>

InitSiblings ==
    /\ InitWith(WiredFan)
    /\ last = [op |-> "init"]

\* The two children of the root run and propagate, each once, interleaved in
\* any way that keeps a sibling's propagation step whole; then the root is
\* visited.
NextSiblings ==
    \/ \E n \in {"a", "b"} : Quiet(SiblingRun(n))
    \/ \E n \in {"a", "b"} : Quiet(SiblingPropagate(n))
    \/ Quiet(ParentVisit)

SpecSiblings == InitSiblings /\ [][NextSiblings]_vars

\* the engines with what the siblings' runners asserted and nothing
\* propagated yet
BeforePropagation ==
    [n \in DOMAIN knowledge |->
        IF n = root THEN [knowledge[n] EXCEPT !.facts = <<>>]
        ELSE [knowledge[n] EXCEPT
                 !.version_vectors = [p \in DOMAIN @ |-> 0]]]

\* every child of the root has run and propagated, and the root has not run
AllPropagated ==
    /\ \A n \in Range(nodes[root].children) : HasPropagated(n)
    /\ ~HasRun(root)

\* C34: once all children have run and propagated, the parent's fact map is
\* the one every order of processing the children gives for the same facts
\* of the children.
C34_AnyOrder ==
    AllPropagated =>
        \A order \in { <<"a", "b">>, <<"b", "a">> } :
            Range(knowledge[root].facts) =
                Range(propagate_all(nodes, BeforePropagation, order)[root].facts)

\* C35: when the runner of a parent is called in a run on a fresh tree, every
\* topic of the child_facts it is given is a topic of the parent's own fact
\* map, with the value that is given as a string.
C35_ChildFactsAgree ==
    [][(last'.op = "visit" /\ last'.node = root) =>
           \A i \in 1..Len(last'.child_facts) :
               LET given == last'.child_facts[i]
               IN  /\ HasTopic(knowledge[root].facts, given.topic)
                   /\ str(dict_get(knowledge[root].facts, given.topic).value)
                          = given.value]_vars

----------------------------------------------------------------------------
(* The levels of a tree *)

RECURSIVE _depth(_, _)
\* the inner function of get_depth
_depth(ns, node) ==
    IF ns[node].children = <<>> THEN 0
    ELSE 1 + MaxOf({ _depth(ns, ns[node].children[i]) :
                        i \in 1..Len(ns[node].children) })

get_depth(ns, rt) == IF rt = NoNode THEN 0 ELSE _depth(ns, rt)

\* the levels of the tree the variables hold
Levels == get_levels_bottom_up(nodes, root)

\* the indices of the levels that hold the node n, once per occurrence
LevelsOf(n) ==
    { p \in (1..Len(Levels)) \X (1..Cardinality(DOMAIN nodes)) :
        p[2] <= Len(Levels[p[1]]) /\ Levels[p[1]][p[2]] = n }

\* the index of the level of n, for a node that is in one level
LevelIndex(n) == (CHOOSE p \in LevelsOf(n) : TRUE)[1]

\* C36: get_levels_bottom_up gives no level for the empty tree; otherwise
\* every node of the tree is in exactly one level and once, no level is
\* empty, the nodes of a level have the same depth, the first level is the
\* deepest and the last holds the root alone, a child is in an earlier level
\* than its parent, and there are get_depth() + 1 levels.
C36_Levels ==
    IF root = NoNode THEN Levels = <<>>
    ELSE /\ \A n \in DOMAIN nodes : Cardinality(LevelsOf(n)) = 1
         /\ \A l \in 1..Len(Levels) :
                /\ Levels[l] # <<>>
                /\ Range(Levels[l]) \subseteq DOMAIN nodes
                /\ \A n, o \in Range(Levels[l]) : Depth(n) = Depth(o)
         /\ \A n \in Range(Levels[1]) : Depth(n) = MaxDepth
         /\ Levels[Len(Levels)] = <<root>>
         /\ \A n \in DOMAIN nodes :
                n # root => LevelIndex(n) < LevelIndex(nodes[n].parent)
         /\ Len(Levels) = get_depth(nodes, root) + 1

\* a tree of four nodes in three levels, one of them with two nodes
C36_Witness ==
    /\ Cardinality(DOMAIN nodes) = 4
    /\ Len(Levels) = 3
    /\ \E l \in 1..Len(Levels) : Len(Levels[l]) = 2
    /\ get_depth(nodes, root) = 2

----------------------------------------------------------------------------
(* sanitize_output, for a message that is already parsed *)

\* SAGSanitizer.sanitize_output
sanitize_output(message, agents, strict) ==
    LET routing_errors == _validate_routing(message, agents)
        schema_errors == _validate_schemas(message.statements)
        guardrail_errors == _validate_guardrails(message.statements)
        errors == routing_errors \o schema_errors \o guardrail_errors
    IN  IF errors # <<>> /\ strict
        THEN SanitizeResult(FALSE, message, errors)
        ELSE SanitizeResult(TRUE, message, errors)

\* sanitize_output is applied to the message of the input, and sanitize to
\* a text that parses to that message
SanitizeOutput ==
    /\ last.op = "input"
    /\ last' = [op |-> "sanitize_output", message |-> last.message,
                strict |-> last.strict,
                ret |-> sanitize_output(last.message, AgentSet, last.strict),
                of_text |-> sanitize([raised |-> "", message |-> last.message],
                                     AgentSet, last.strict)]
    /\ UNCHANGED knowledge
    /\ UNCHANGED others

InitOutput ==
    /\ InitWith(TreeEngine)
    /\ \E parsed \in { p \in ParsedSet : p.raised = "" }, strict \in BOOLEAN :
           last = [op |-> "input", message |-> parsed.message, strict |-> strict]

NextOutput == Quiet(SanitizeOutput)

SpecOutput == InitOutput /\ [][NextOutput]_vars

\* C37: sanitize_output gives for a parsed message the validity and the
\* errors sanitize gives for the message's wire text, in both modes.
C37_OutputAsSanitize ==
    last.op = "sanitize_output" =>
        /\ last.ret.valid = last.of_text.valid
        /\ last.ret.errors = last.of_text.errors

----------------------------------------------------------------------------
(* A checkpoint of one tree restored into another *)

\* the tree a checkpoint is restored into: a root and its child b, wired
LiveTree ==
    LET t == add_child(add_root(TreeEngine, "root"), "root", "b")
    IN  [t EXCEPT !.knowledge = setup_subscriptions(t.nodes, t.knowledge, <<Star, Star>>)]

\* the tree a checkpoint was saved from: a root that has asserted a fact and
\* recorded a message, and its child a, which holds a fact too
SnapshotTree ==
    [PairTree EXCEPT
        !.knowledge = [n \in DOMAIN @ |-> assert_fact(@[n], <<"a", Dot, "b">>, X)],
        !.correlation["root"] = record_incoming(@, Incoming(<<"p", 2>>))]

\* CheckpointManager.save for the other tree, into the same directory
SaveOther ==
    /\ Len(files) < MaxCheckpoints
    /\ files' = save(files, SnapshotTree.nodes, SnapshotTree.knowledge,
                     SnapshotTree.correlation, <<>>, 0, 0, 0)
    /\ last' = [op |-> "save", id |-> Len(files) + 1]
    /\ UNCHANGED <<nodes, root, knowledge, correlation, counter, grove, frame,
                   trace, saved>>

InitInto ==
    /\ InitWith(LiveTree)
    /\ last = [op |-> "init"]

\* The nodes of the live tree assert facts, record messages and propagate;
\* a checkpoint of the other tree is saved, and restored at any moment.
NextInto ==
    \/ \E n \in {"root", "b"} : Quiet(AssertFact(n, {<<"b">>}, {X}))
    \/ \E n \in {"root", "b"} : Quiet(RecordIncoming(n, {<<"p", 1>>}))
    \/ Quiet(PropagateUp("b"))
    \/ Quiet(SaveOther)
    \/ \E id \in 1..(MaxCheckpoints + 1) : Quiet(Restore(id))

SpecInto == InitInto /\ [][NextInto]_vars

\* the ids of the node snapshots of the checkpoint that was restored
Snapshotted == DOMAIN load(files, last'.id).meta.node_snapshots

RestoreFrame ==
    (last'.op = "restore" /\ last'.raised = "") =>
        /\ nodes' = nodes
        /\ root' = root
        /\ DOMAIN knowledge' = DOMAIN nodes
        /\ DOMAIN correlation' = DOMAIN nodes
        /\ \A n \in DOMAIN nodes \ Snapshotted :
               /\ knowledge'[n] = knowledge[n]
               /\ correlation'[n] = correlation[n]
        /\ \A n \in DOMAIN nodes :
               /\ knowledge'[n].subscriptions = knowledge[n].subscriptions
               /\ knowledge'[n].subscribers = knowledge[n].subscribers

\* C38: restore gives no node to the tree for a snapshot whose id the tree
\* does not know, leaves the engines of a node that has no snapshot as they
\* are, and changes no node's subscriptions or subscribers nor the links of
\* the tree.
C38_RestoreFrame == [][RestoreFrame]_vars

\* a checkpoint with a snapshot for a, which the tree does not have, and none
\* for b, which holds a fact and a recorded message, has been restored and
\* changed the root
C38_Witness ==
    /\ last.op = "restore"
    /\ last.raised = ""
    /\ last.changed
    /\ "a" \in DOMAIN load(files, last.id).meta.node_snapshots
    /\ "a" \notin DOMAIN nodes
    /\ "b" \notin DOMAIN load(files, last.id).meta.node_snapshots
    /\ knowledge["b"].facts # <<>>
    /\ correlation["b"] # EmptyMap
    /\ knowledge["b"].subscribers # EmptyMap

----------------------------------------------------------------------------
(* trace_thread, turn by turn *)

\* the ids the messages of a thread carry, and an id no message carries
ThreadIds == { <<"p", 1>>, <<"p", 2>> }
MissingId == <<"p", 3>>

\* the messages a list is made of: every id with every correlation (an id of
\* the list, the missing id, None), a message whose id is None, and a
\* message without a header
ThreadMessages ==
    { [header |-> [message_id |-> id, source |-> "p", destination |-> "root",
                   correlation |-> corr],
       statements |-> <<>>] :
        id \in ThreadIds, corr \in ThreadIds \cup {MissingId, NoId} }
    \cup { [header |-> [message_id |-> NoId, source |-> "p", destination |-> "root",
                        correlation |-> <<"p", 1>>],
            statements |-> <<>>],
           [header |-> NoObject, statements |-> <<>>] }

RECURSIVE message_map(_)
\* the dict of the first loop: a later message takes the key of an earlier one
message_map(messages) ==
    IF messages = <<>> THEN EmptyMap
    ELSE LET msg == messages[Len(messages)]
             before == message_map(SubSeq(messages, 1, Len(messages) - 1))
         IN  IF msg.header # NoObject /\ msg.header.message_id # NoId
             THEN Put(before, msg.header.message_id, msg)
             ELSE before

\* the test of the while loop
trace_goes_on(f) ==
    ~f.broke /\ f.current_id # NoId /\ f.current_id \notin f.visited

\* one turn of the while loop
trace_turn(f) ==
    LET visited == f.visited \cup {f.current_id}
    IN  IF f.current_id \notin DOMAIN f.message_map
        THEN [f EXCEPT !.visited = visited, !.broke = TRUE]
        ELSE LET msg == f.message_map[f.current_id]
                 thread == Append(f.thread, msg)
             IN  IF msg.header.correlation # NoId
                 THEN [f EXCEPT !.visited = visited, !.thread = thread,
                                !.current_id = msg.header.correlation]
                 ELSE [f EXCEPT !.visited = visited, !.thread = thread,
                                !.broke = TRUE]

\* A slip of trace_thread: the thread is returned as it was gathered.
trace_result_unreversed(f) == f.thread

\* thread.reverse(); return thread
trace_result(f) == [i \in 1..Len(f.thread) |-> f.thread[Len(f.thread) + 1 - i]]

\* the call, up to the while loop
TraceEnter ==
    /\ last.op = "input"
    /\ frame = Idle
    /\ frame' = [pc |-> "trace_thread", messages |-> last.messages,
                 start_message_id |-> last.start_message_id,
                 message_map |-> message_map(last.messages),
                 thread |-> <<>>, current_id |-> last.start_message_id,
                 visited |-> {}, broke |-> FALSE]
    /\ last' = [op |-> "enter"]
    /\ UNCHANGED <<nodes, root, knowledge, correlation, counter, files, grove,
                   trace, saved>>

TraceTurn ==
    /\ frame.pc = "trace_thread"
    /\ trace_goes_on(frame)
    /\ frame' = trace_turn(frame)
    /\ last' = [op |-> "turn"]
    /\ UNCHANGED <<nodes, root, knowledge, correlation, counter, files, grove,
                   trace, saved>>

TraceReturn ==
    /\ frame.pc = "trace_thread"
    /\ ~trace_goes_on(frame)
    /\ frame' = Idle
    /\ last' = [op |-> "trace_thread", messages |-> frame.messages,
                start_message_id |-> frame.start_message_id,
                ret |-> trace_result(frame)]
    /\ UNCHANGED <<nodes, root, knowledge, correlation, counter, files, grove,
                   trace, saved>>

InitThread ==
    /\ InitWith(TreeEngine)
    /\ \E messages \in ListsUpTo(ThreadMessages, MaxMessages),
          start_message_id \in ThreadIds \cup {MissingId} :
           last = [op |-> "input", messages |-> messages,
                   start_message_id |-> start_message_id]

NextThread ==
    \/ Quiet(TraceEnter)
    \/ Quiet(TraceTurn)
    \/ Quiet(TraceReturn)

\* a call that has begun runs on: no other thread of control is involved
SpecThread == InitThread /\ [][NextThread]_vars /\ WF_vars(NextThread)

\* the id of a message (None for one without a header)
IdOf(message) ==
    IF message.header = NoObject THEN NoId ELSE message.header.message_id

\* what trace_thread returned: messages of the list, none twice, each one
\* the message its successor names as correlation, the last one a message
\* with the start id; nothing when no message has the start id
ThreadShape ==
    last.op = "trace_thread" =>
        LET ret == last.ret
        IN  /\ Range(ret) \subseteq Range(last.messages)
            /\ \A i, j \in 1..Len(ret) : ret[i] = ret[j] => i = j
            /\ \A i \in 2..Len(ret) :
                   ret[i].header.correlation = IdOf(ret[i - 1])
            /\ IF \E i \in 1..Len(last.messages) :
                      IdOf(last.messages[i]) = last.start_message_id
               THEN /\ ret # <<>>
                    /\ IdOf(ret[Len(ret)]) = last.start_message_id
               ELSE ret = <<>>

\* the loop makes at most one turn for every message of the list, and one
\* more
TurnsBounded ==
    frame.pc = "trace_thread" =>
        Cardinality(frame.visited) <= Len(frame.messages) + 1

\* C39: trace_thread returns for every list of messages and every start id,
\* after at most one turn of its loop per message and one more; the result
\* has no message twice, every element's correlation is the id of the
\* element before it, the last element is the message with the start id, and
\* the result is empty when no message has the start id.
C39_TraceThread == []ThreadShape /\ []TurnsBounded /\ <>(last.op = "trace_thread")

\* two messages that name each other as correlation: the walk stopped at the
\* revisit and returned both
C39_Witness ==
    /\ last.op = "trace_thread"
    /\ Len(last.ret) = 2
    /\ last.ret[1].header.correlation = IdOf(last.ret[2])
    /\ last.ret[2].header.correlation = IdOf(last.ret[1])
    /\ IdOf(last.ret[1]) # IdOf(last.ret[2])

----------------------------------------------------------------------------
(* prompt.py: SAGGenerator.generate.  A response of the LLM client is given  *)
(* as its text and what SAGMessageParser.parse makes of it; lists are        *)
(* objects of the heap, as in the fold engine.                               *)

MaxRetries == 2

GenerationResult(message, raw_text, success, attempts, errors) ==
    [message |-> message, raw_text |-> raw_text, success |-> success,
     attempts |-> attempts, errors |-> errors]

RECURSIVE _validate_message_schema(_)
\* the first schema error of the action statements (no element for None)
_validate_message_schema(statements) ==
    IF statements = <<>> THEN {}
    ELSE LET stmt == Head(statements)
         IN  IF stmt.kind = "action" /\ stmt.schema_code # ""
             THEN { <<"Schema error", stmt.schema_code>> }
             ELSE _validate_message_schema(Tail(statements))

\* what the client may answer: a text that does not parse, a message whose
\* actions pass the schema, and two messages with an action that fails it
Responses ==
    { [raw_text |-> "garbled", raised |-> "SAGParseException"] }
    \cup { [raw_text |-> text, raised |-> "", message |-> [statements |-> stmts]] :
             text \in {"sag"},
             stmts \in { <<[kind |-> "action", schema_code |-> sc, guardrail_code |-> ""]>> :
                            sc \in {"", "TYPE_MISMATCH"} }
                       \cup { <<[kind |-> "know", schema_code |-> "", guardrail_code |-> ""],
                                [kind |-> "action", schema_code |-> "MISSING_ARG",
                                 guardrail_code |-> ""]>> } }

\* the two messages appended after a failed attempt
Feedback(raw_text, error_msg) ==
    << [role |-> "assistant", content |-> <<raw_text>>],
       [role |-> "user", content |-> error_msg] >>

\* A slip of generate: the feedback is appended after the last attempt too.
generate_turn_fed(f, h, response) ==
    LET failed(error_msg) ==
            [frame |-> [f EXCEPT !.attempt = @ + 1, !.calls = @ + 1,
                                 !.raw_text = response.raw_text,
                                 !.errors = Append(@, error_msg)],
             heap |-> [h EXCEPT ![f.conversation] =
                          @ \o Feedback(response.raw_text, error_msg)],
             ret |-> {}]
    IN  IF response.raised # ""
        THEN failed(<<"Parse error", response.raised>>)
        ELSE LET schema_error ==
                     IF f.validate_schema /\ f.schema_registry
                     THEN _validate_message_schema(response.message.statements)
                     ELSE {}
             IN  IF schema_error # {}
                 THEN failed(CHOOSE e \in schema_error : TRUE)
                 ELSE [frame |-> [f EXCEPT !.calls = @ + 1,
                                           !.raw_text = response.raw_text],
                       heap |-> h,
                       ret |-> { GenerationResult({response.message},
                                     response.raw_text, TRUE, f.attempt + 1,
                                     f.errors) }]

\* one turn of the loop of generate, for the response the client gives: the
\* frame and the heap after it, and what is returned (nothing when the loop
\* goes on)
generate_turn(f, h, response) ==
    LET failed(error_msg) ==
            [frame |-> [f EXCEPT !.attempt = @ + 1, !.calls = @ + 1,
                                 !.raw_text = response.raw_text,
                                 !.errors = Append(@, error_msg)],
             heap |-> IF f.attempt < f.total_attempts - 1
                      THEN [h EXCEPT ![f.conversation] =
                               @ \o Feedback(response.raw_text, error_msg)]
                      ELSE h,
             ret |-> {}]
    IN  IF response.raised # ""
        THEN failed(<<"Parse error", response.raised>>)
        ELSE LET schema_error ==
                     IF f.validate_schema /\ f.schema_registry
                     THEN _validate_message_schema(response.message.statements)
                     ELSE {}
             IN  IF schema_error # {}
                 THEN failed(CHOOSE e \in schema_error : TRUE)
                 ELSE [frame |-> [f EXCEPT !.calls = @ + 1,
                                           !.raw_text = response.raw_text],
                       heap |-> h,
                       ret |-> { GenerationResult({response.message},
                                     response.raw_text, TRUE, f.attempt + 1,
                                     f.errors) }]

\* a step of generate leaves the tree and the engines alone
Generating(A) ==
    /\ A
    /\ UNCHANGED <<nodes, root, knowledge, correlation, counter, files, grove,
                   trace, saved, asserted, minted, folds>>

\* generate, up to the loop: the conversation is a copy of the caller's list
GenerateEnter ==
    /\ last.op = "input"
    /\ frame = Idle
    /\ LET conversation == NewList(heap)
       IN  /\ heap' = Put(heap, conversation, heap[last.messages])
           /\ frame' = [pc |-> "generate", messages |-> last.messages,
                        given |-> heap[last.messages],
                        conversation |-> conversation, errors |-> <<>>,
                        raw_text |-> "", attempt |-> 0, calls |-> 0,
                        total_attempts |-> 1 + last.max_retries,
                        validate_schema |-> last.validate_schema,
                        schema_registry |-> last.schema_registry]
    /\ last' = [op |-> "enter"]

\* one turn of the loop: the client is called and its response looked at
GenerateTurn ==
    /\ frame.pc = "generate"
    /\ frame.attempt < frame.total_attempts
    /\ \E response \in Responses :
           LET t == generate_turn(frame, heap, response)
           IN  /\ heap' = t.heap
               /\ IF t.ret = {}
                  THEN /\ frame' = t.frame
                       /\ last' = [op |-> "turn"]
                  ELSE /\ frame' = Idle
                       /\ last' = [op |-> "generate", call |-> t.frame,
                                   ret |-> CHOOSE r \in t.ret : TRUE]

\* the loop is over: all attempts exhausted
GenerateExhausted ==
    /\ frame.pc = "generate"
    /\ ~(frame.attempt < frame.total_attempts)
    /\ frame' = Idle
    /\ heap' = heap
    /\ last' = [op |-> "generate", call |-> frame,
                ret |-> GenerationResult({}, frame.raw_text, FALSE,
                                         frame.total_attempts, frame.errors)]

\* the generator is configured with 0..MaxRetries retries, with or without
\* validation and registry, and is given a list of one or two messages
InitGenerate ==
    /\ nodes = EmptyMap
    /\ root = NoNode
    /\ knowledge = EmptyMap
    /\ correlation = EmptyMap
    /\ counter = 1
    /\ files = <<>>
    /\ grove = InteractiveGrove
    /\ frame = Idle
    /\ trace = <<>>
    /\ asserted = EmptyMap
    /\ minted = {}
    /\ saved = EmptyMap
    /\ folds = EmptyMap
    /\ \E messages \in { <<[role |-> "user", content |-> <<"hello">>]>>,
                         <<[role |-> "user", content |-> <<"hello">>],
                           [role |-> "assistant", content |-> <<"garbled">>]>> },
          max_retries \in 0..MaxRetries,
          validate_schema \in BOOLEAN, schema_registry \in BOOLEAN :
           /\ heap = Put(EmptyMap, 1, messages)
           /\ last = [op |-> "input", messages |-> 1, max_retries |-> max_retries,
                      validate_schema |-> validate_schema,
                      schema_registry |-> schema_registry]

NextGenerate ==
    \/ Generating(GenerateEnter)
    \/ Generating(GenerateTurn)
    \/ Generating(GenerateExhausted)

\* generate is sequential code and the client answers every call
SpecGenerate == InitGenerate /\ [][NextGenerate]_vars /\ WF_vars(NextGenerate)

\* the client is never called more often than there are attempts
CallsBounded ==
    frame.pc = "generate" => frame.calls <= frame.total_attempts

\* what generate returned
GenerateResult ==
    last.op = "generate" =>
        LET call == last.call
            ret == last.ret
            fed == (Len(heap[call.conversation]) - Len(call.given)) \div 2
        IN  /\ call.calls <= call.total_attempts
            /\ ret.success =>
                   /\ ret.message # {}
                   /\ ret.attempts = call.calls
                   /\ Len(ret.errors) = ret.attempts - 1
                   /\ fed = ret.attempts - 1
            /\ ~ret.success =>
                   /\ ret.message = {}
                   /\ ret.attempts = call.total_attempts
                   /\ call.calls = call.total_attempts
                   /\ Len(ret.errors) = call.total_attempts
                   /\ fed = call.total_attempts - 1
            /\ heap[call.conversation] =
                   call.given \o SubSeq(heap[call.conversation],
                                        Len(call.given) + 1,
                                        Len(call.given) + 2 * fed)
            /\ heap[call.messages] = call.given

\* C40: generate returns after at most 1 + max_retries calls of the client;
\* on success attempts is the number of the first response that passed, with
\* one error for each attempt before it; on exhaustion success is false, no
\* message is given, attempts is 1 + max_retries and there are as many
\* errors; the feedback of a failed attempt is appended to the conversation
\* only when another attempt follows; the caller's list is left as it was.
C40_Generate == []CallsBounded /\ []GenerateResult /\ <>(last.op = "generate")

\* with two retries the third response passed, after a text that did not
\* parse and a message that failed the schema
C40_Witness ==
    /\ last.op = "generate"
    /\ last.ret.success
    /\ last.ret.attempts = 3
    /\ last.ret.errors = << <<"Parse error", "SAGParseException">>,
                            <<"Schema error", "TYPE_MISMATCH">> >>
    /\ Len(heap[last.call.conversation]) = Len(last.call.given) + 4

====
